---- MODULE Spec2Model ----
(***************************************************************************)
(* Session and transport layer of the ZK terminal client.                  *)
(*                                                                         *)
(* Two implementations live in the repository and both are modelled:       *)
(*   impl = "node" : node-zk/src/zk.js (class ZK, second definition) with  *)
(*                   the codec helpers of utils (createHeader, readHeader) *)
(*   impl = "base" : the base port (class ZK with __send_command)          *)
(*                                                                         *)
(* A packet is the record of its header fields and an abstract payload     *)
(* (arg).  The transport is modelled at the level of whole frames: toDev   *)
(* holds the requests travelling to the device, toCli the frames           *)
(* travelling to (or buffered at) the client.  One action is one turn of   *)
(* the JavaScript event loop: an I/O event together with the continuation  *)
(* of the awaiting operation up to its next await.                         *)
(***************************************************************************)
EXTENDS Integers, Sequences, FiniteSets, TLC

\* ---------------------------------------------------------------- bounds
MaxOps == 2          \* operations the host invokes in one behaviour
MaxIrregular == 1    \* irregular events in one behaviour: receive timeouts and
                     \* socket errors, replies in which the device changes the
                     \* session or does not echo the reply id, chunk requests
                     \* it answers in several frames
MaxCalls == 1        \* further invocations open to calls that are not awaited
MaxFrames == 2       \* frames the device writes to the stream (byte-level view)
MaxRequests == 2     \* requests made on the stream (byte-level view)
MaxEvents == 2       \* frames the raw receive of live capture is given

\* ------------------------------------------------------ protocol constants
USHRT_MAX == 65535
CMD_CONNECT == 1000
CMD_EXIT == 1001
CMD_ENABLEDEVICE == 1002
CMD_DISABLEDEVICE == 1003
CMD_AUTH == 1102
CMD_PREPARE_DATA == 1500
CMD_DATA == 1501
CMD_FREE_DATA == 1502
_CMD_PREPARE_BUFFER == 1503
_CMD_READ_BUFFER == 1504
CMD_ACK_OK == 2000
CMD_ACK_ERROR == 2001
CMD_ACK_UNAUTH == 2005
CMD_USERTEMP_RRQ == 9
FCT_USER == 5
CMD_GET_FREE_SIZES == 50
CMD_STARTVERIFY == 60
CMD_STARTENROLL == 61
CMD_CANCELCAPTURE == 62
CMD_REG_EVENT == 500
CMD_USER_WRQ == 8
CMD_DELETE_USER == 18
_CMD_SAVE_USERTEMPS == 110
CMD_REFRESHDATA == 1013
CMD_CLEAR_DATA == 14
EF_ATTLOG == 16777216
password == 0
TcpTop == 8          \* createTcpTop: the envelope, magic words then `length`

\* ------------------------------------------------------ device environment
\* The session id the device assigns, the one it may switch to, and the reply
\* ids it may use instead of echoing the one it received.
DevSession == 4660
OtherSession == 22136
OddReplyIds == {65533, 65535}
ReplyCodes == {CMD_ACK_OK, CMD_ACK_ERROR, CMD_ACK_UNAUTH, CMD_DATA, CMD_PREPARE_DATA}

Impls == {"node", "base"}

VARIABLES
  impl,         \* which implementation runs
  tcp,          \* this.tcp: stream carrier (TRUE) or datagram carrier (FALSE)
  sessionId,    \* this.sessionId / this.__session_id
  replyId,      \* this.replyId / this.__reply_id
  isConnected,  \* this.isConnected / this.is_connect
  isEnabled,    \* this.isEnabled / this.is_enabled
  socket,       \* the transport is open (this.socket / this.__sock usable)
  pc,           \* await point the running operation is suspended at
  response,     \* local `response` of connect
  res,          \* result the primitive last returned to the running operation
  header,       \* header of the reply the primitive last read for it
  outcome,      \* how the last operation ended
  auxPc,        \* a second call the host made while the first is suspended
  auxOutcome,   \* how that call ended
  rwb,          \* locals of the running bulk read
  wire,         \* last packet written to the transport
  toDev,        \* requests on their way to the device
  toCli,        \* frames on their way to the client
  devLast,      \* reply id of the last reply the device sent
  devStream,    \* frames the device still has to send after CMD_PREPARE_DATA
  nStreams,     \* chunk requests answered in several frames so far
  sentCmds,     \* command codes written during the running operation
  run,          \* successful echoed commands since the counters were reset, -1 once broken
  connSession,  \* session field of the reply to the last CMD_CONNECT
  nOps,         \* operations invoked so far
  nFaults,      \* timeouts and socket errors so far
  nOdd          \* deviating replies so far

\* The byte-level view of the stream carrier: one request at a time against
\* the bytes the device writes, cut into read events in every possible way.
\* A byte is named by its offset in the stream.
VARIABLES
  frames,       \* the `length` field of each frame the device has written
  arrived,      \* stream bytes the socket has emitted in 'data' events
  tcpBuffer,    \* received bytes held: `chunks` of the listener / this.__tcpBuffer
  request,      \* the request in progress
  returned,     \* what the last request returned
  nRequests     \* requests made so far

\* The flows built on the raw receive primitive (node-zk).
VARIABLES
  capture,      \* the liveCapture generator: where it is suspended, its locals
  enroll,       \* the enrollUser call: where it is suspended, its locals
  device,       \* the terminal: whether it is enabled, the event mask registered
  issued,       \* commands the running flow has awaited, with their argument
  nEvents       \* frames given to the raw receive of live capture so far

\* The user table operations and the template bulk write.
VARIABLES
  nextUid,      \* this.nextUid / this.next_uid
  nextUserId,   \* this.nextUserId / this.next_user_id
  usersCount,   \* this.usersCount / this.users
  userPacketSize, \* this.userPacketSize / this.user_packet_size
  job,          \* the user table operation in progress: where it is suspended, its locals
  nJobs         \* user table operations invoked so far

\* The codec and the record parsers, which exchange nothing with the terminal.
VARIABLES
  codec,        \* a call of a codec function: its arguments, what it returned
  scan          \* a record parser: the buffer it walks, its locals

\* the variables of the frame-level view
session == <<impl, tcp, sessionId, replyId, isConnected, isEnabled, socket, pc,
             response, res, header, outcome, auxPc, auxOutcome, rwb, wire, toDev, toCli, devLast,
             devStream, nStreams, sentCmds, run, connSession, nOps, nFaults, nOdd>>

\* the variables of the byte-level view
stream == <<frames, arrived, tcpBuffer, request, returned, nRequests>>

\* the variables the frame-level view leaves alone
\* the variables of the flows built on the raw receive
events == <<capture, enroll, device, issued, nEvents>>

\* the variables of the user table operations
book == <<nextUid, nextUserId, usersCount, userPacketSize, job, nJobs>>

\* the variables of the codec and of the record parsers
offline == <<codec, scan>>

apart == <<stream, events, book, offline, offline>>

vars == <<session, apart>>

NoCodec == [op |-> "none", pc |-> "made", command |-> 0, data |-> <<>>, sessionId |-> 0,
            replyId |-> 0, x |-> <<>>, date |-> <<>>, node |-> <<>>, base |-> <<>>]
NoScan == [op |-> "none", pc |-> "done", end |-> "none", recordsCount |-> 0, fingers |-> 0,
           size |-> 0, total |-> 0, data |-> <<>>, length |-> 0, recordSize |-> 0,
           offset |-> 0, rows |-> 0]
NoPkt == [command |-> 0, session |-> 0, reply |-> 0, arg |-> <<>>, no |-> 0]
NoRes == [status |-> FALSE, code |-> 0]
NoRwb == [size |-> 0, i |-> 0, start |-> 0, tries |-> 0]
NoBuffer == [from |-> 0, total |-> 0, target |-> -1, valid |-> TRUE]
NoRequest == [pc |-> "idle", kind |-> "cmd", responseSize |-> 0]
NoResult == [kind |-> "cmd", status |-> "none", frame |-> 0, skip |-> 0, size |-> 0]
NoEvent == [valid |-> FALSE, length |-> 0, at8 |-> 0, at16 |-> 0]
NoCapture == [pc |-> "idle", wasEnabled |-> TRUE, devWas |-> TRUE, running |-> TRUE,
              looped |-> FALSE, stoppedAt |-> "none", command |-> 0, data |-> 0,
              end |-> "none"]
NoJob == [name |-> "none", pc |-> "idle", uid |-> 0, userId |-> "", users |-> <<>>,
          length |-> 0, start |-> 0, result |-> "none", acks |-> <<>>]

NoEnroll == [pc |-> "idle", i |-> 0, success |-> FALSE, codes |-> <<>>, steps |-> <<>>,
             ev |-> NoEvent, began |-> FALSE, end |-> "none"]

\* ------------------------------------------------------------------ codec
\* createHeader with the wrap test written as > : 65535 goes out unwrapped
nextReplyId_gt(rid) ==
  IF rid + 1 > USHRT_MAX THEN rid + 1 - USHRT_MAX ELSE rid + 1

\* utils.createHeader: the reply id written to the packet
nextReplyId(rid) ==
  IF rid + 1 >= USHRT_MAX THEN rid + 1 - USHRT_MAX ELSE rid + 1

\* utils.createHeader (header fields; the checksum is not part of this view)
createHeader(command, arg, sid, rid) ==
  [command |-> command, session |-> sid, reply |-> nextReplyId(rid), arg |-> arg]

\* base port __create_header
nextReply(rid) ==
  IF rid + 1 >= USHRT_MAX THEN rid + 1 - USHRT_MAX ELSE rid + 1

__create_header(command, arg, sid, rid) ==
  [command |-> command, session |-> sid, reply |-> nextReply(rid), arg |-> arg]

\* utils.readHeader / base __unpack_header
readHeader(raw) ==
  [command |-> raw.command, session |-> raw.session, reply |-> raw.reply]

\* utils.makeCommKey: the inputs the key is derived from
makeCommKey(key, sid) == <<key, sid>>

\* --------------------------------------------------- request/reply primitive
\* the guard testing the socket instead of the connected flag
notConnected_socket(command) ==
  command # CMD_CONNECT /\ command # CMD_AUTH /\ ~socket

\* the guard at the top of _sendCommand / __send_command
notConnected(command) ==
  command # CMD_CONNECT /\ command # CMD_AUTH /\ ~isConnected

\* the packet the primitive writes for (command, arg) with the given counters
compose(command, arg, sid, rid) ==
  IF impl = "node" THEN createHeader(command, arg, sid, rid)
  ELSE __create_header(command, arg, sid, rid)

\* the classification without CMD_DATA in the list of ok codes
status_noData(code) == code \in {CMD_ACK_OK, CMD_PREPARE_DATA}

\* _sendCommand: classification of the reply code
status(code) == code \in {CMD_ACK_OK, CMD_PREPARE_DATA, CMD_DATA}

\* _sendCommand after the reply is in: the session id it stores
_sendCommand_session(raw) == readHeader(raw).session

\* __send_command after the reply is in: the session id is left alone
__send_command_session(raw) == sessionId

\* session id stored once the primitive has read reply raw
recvSession(raw) ==
  IF impl = "node" THEN _sendCommand_session(raw) ELSE __send_command_session(raw)

\* the primitive without the assignment of the reply id
recvReply_kept(raw) == replyId

\* reply id stored once the primitive has read reply raw (both implementations)
recvReply(raw) == readHeader(raw).reply

\* result object returned by the primitive
result(raw) == [status |-> status(readHeader(raw).command), code |-> readHeader(raw).command]

\* ------------------------------------------------------------ action parts
WaitLabels == {"connect.CONNECT", "connect.AUTH", "disconnect.EXIT",
               "enableDevice", "disableDevice",
               "rwb.PREPARE", "rwb.CHUNK", "rwb.CHUNK.data", "rwb.FREE"}

Faults == {"Timeout", "TransportError"}

\* The base port on the stream carrier takes its reply from this.__tcpBuffer
\* by byte count: __send_command reads responseSize + 8 bytes, whatever
\* frames they belong to.  Bytes of a frame, and of the frames buffered; a
\* frame with command 0 stands for the arg[1] bytes left of a frame that a
\* read has cut.
frameBytes(f) ==
  IF f.command = 0 THEN f.arg[1]
  ELSE TcpTop + 8 + (IF f.arg = <<>> THEN 0
                     ELSE IF f.command = CMD_DATA THEN f.arg[1] ELSE 5)

RECURSIVE bufferedBytes(_)
bufferedBytes(q) == IF q = <<>> THEN 0 ELSE frameBytes(Head(q)) + bufferedBytes(Tail(q))

\* responseSize of the __send_command suspended at label
responseSizeOf(label) ==
  IF label = "rwb.PREPARE" THEN 1024
  ELSE IF label = "rwb.CHUNK" THEN wire.arg[2] + 32
  ELSE 8

\* __tcpBuffer.slice(n) on the buffered frames
RECURSIVE slice(_, _)
slice(q, n) ==
  IF n = 0 \/ q = <<>> THEN q
  ELSE IF frameBytes(Head(q)) <= n THEN slice(Tail(q), n - frameBytes(Head(q)))
  ELSE <<[command |-> 0, session |-> 0, reply |-> 0,
          arg |-> <<frameBytes(Head(q)) - n>>, no |-> 0]>> \o Tail(q)

\* __read_tcp(responseSize + 8) can return
readable ==
  /\ toCli # <<>>
  /\ impl = "base" /\ tcp => bufferedBytes(toCli) >= responseSizeOf(pc) + TcpTop

\* the reply of the primitive is in: on the stream carrier the bytes read
\* begin with an envelope that _validateTcpTop / __test_tcp_top accepts
received == readable /\ (tcp => Head(toCli).command # 0)

\* what stays buffered once the reply is read.  read_with_buffer reads the
\* rest of an inline CMD_DATA payload that is longer than the bytes asked for.
afterRead ==
  IF impl = "base" /\ tcp
  THEN LET length == responseSizeOf(pc) + TcpTop
           whole  == frameBytes(Head(toCli))
       IN IF pc = "rwb.PREPARE" /\ Head(toCli).command = CMD_DATA /\ whole > length
          THEN slice(toCli, whole)
          ELSE slice(toCli, length)
  ELSE Tail(toCli)

\* packet p as the next one written: `no` counts the packets written, and the
\* frames the device sends in answer carry it (it is not on the wire: it
\* records which request a frame answers)
written_as(p) ==
  [command |-> p.command, session |-> p.session, reply |-> p.reply, arg |-> p.arg,
   no |-> wire.no + 1]

\* the primitive writes packet p and suspends at label
Send(label, p, dev, cmds) ==
  /\ pc' = label
  /\ wire' = written_as(p)
  /\ toDev' = Append(dev, written_as(p))
  /\ sentCmds' = Append(cmds, p.command)
  /\ outcome' = "none"

\* the operation ends with outcome o without writing anything more
Return(o, cmds) ==
  /\ pc' = "idle"
  /\ outcome' = o
  /\ sentCmds' = cmds
  /\ UNCHANGED <<wire, toDev>>

\* node-zk: every receive listener registered on the socket sees the frame,
\* so a second suspended call completes with the same frame f
AuxShare(f) ==
  IF auxPc = "wait"
  THEN /\ auxPc' = "idle"
       /\ auxOutcome' = IF status(f.command) THEN "ok" ELSE "CannotFreeData"
  ELSE UNCHANGED <<auxPc, auxOutcome>>

\* node-zk: a socket error, and bytes that are no envelope, reject every
\* suspended call (each listener sees them), a timeout only the call whose
\* timer fired
AuxFault(e) ==
  IF auxPc = "wait" /\ e \in {"TransportError", "FrameError"}
  THEN auxPc' = "idle" /\ auxOutcome' = e
  ELSE UNCHANGED <<auxPc, auxOutcome>>

\* second half of the primitive: reply f has been read
Recv(f) ==
  /\ AuxShare(f)
  /\ toCli' = afterRead
  /\ header' = readHeader(f)
  /\ res' = result(f)
  /\ replyId' = recvReply(f)
  /\ run' = IF run >= 0 /\ status(f.command) /\ f.reply = wire.reply
            THEN run + 1 ELSE -1

\* an operation starts: nothing read yet
Fresh ==
  /\ header' = readHeader(NoPkt)
  /\ res' = NoRes
  /\ response' = NoRes

\* the primitive threw instead of returning
Thrown ==
  /\ nFaults + nOdd + nStreams < MaxIrregular
  /\ nFaults' = nFaults + 1
  /\ run' = -1
  /\ UNCHANGED <<toCli, header, res, replyId, sessionId>>

\* the rejection made after the header of the bytes read has been stored
Rejected_parsed(e) ==
  IF e = "FrameError"
  THEN /\ readable /\ ~received
       /\ toCli' = afterRead
       /\ run' = -1
       /\ replyId' = recvReply(Head(toCli))
       /\ UNCHANGED <<nFaults, header, res, sessionId>>
  ELSE Thrown

\* the primitive threw e: a fault of the transport, or 'TCP packet invalid'
\* when the bytes read do not begin with an envelope
Rejected(e) ==
  IF e = "FrameError"
  THEN /\ readable /\ ~received
       /\ toCli' = afterRead
       /\ run' = -1
       /\ UNCHANGED <<nFaults, header, res, replyId, sessionId>>
  ELSE Thrown

Init ==
  /\ impl \in Impls
  /\ tcp \in BOOLEAN
  /\ sessionId = 0
  /\ replyId = USHRT_MAX - 1
  /\ isConnected = FALSE
  /\ isEnabled = TRUE
  /\ socket = FALSE
  /\ pc = "idle"
  /\ response = NoRes
  /\ res = NoRes
  /\ header = readHeader(NoPkt)
  /\ outcome = "none"
  /\ auxPc = "idle"
  /\ auxOutcome = "none"
  /\ rwb = NoRwb
  /\ wire = NoPkt
  /\ toDev = <<>>
  /\ toCli = <<>>
  /\ devLast = 0
  /\ devStream = <<>>
  /\ nStreams = 0
  /\ sentCmds = <<>>
  /\ run = 0
  /\ connSession = 0
  /\ nOps = 0
  /\ nFaults = 0
  /\ nOdd = 0
  /\ frames = <<>>
  /\ arrived = 0
  /\ tcpBuffer = NoBuffer
  /\ request = NoRequest
  /\ returned = NoResult
  /\ nRequests = 0
  /\ capture = NoCapture
  /\ enroll = NoEnroll
  /\ device = [enabled |-> TRUE, events |-> 0]
  /\ issued = <<>>
  /\ nEvents = 0
  /\ nextUid = 1
  /\ nextUserId = "1"
  /\ usersCount = 0
  /\ userPacketSize = 28
  /\ job = NoJob
  /\ nJobs = 0
  /\ codec = NoCodec
  /\ scan = NoScan

\* ------------------------------------------------------------ node: connect
\* zk.connect() up to `await this._createSocket()`
connect ==
  /\ impl = "node" /\ pc = "idle" /\ nOps < MaxOps
  /\ nOps' = nOps + 1
  /\ sentCmds' = <<>>
  /\ IF isConnected
     THEN pc' = "idle" /\ outcome' = "ok"
     ELSE pc' = "connect.socket" /\ outcome' = "none"
  /\ Fresh
  /\ UNCHANGED <<apart, impl, tcp, auxPc, auxOutcome, nStreams, devStream, nFaults, nOdd, rwb, sessionId, replyId, isConnected, isEnabled, socket,
                 wire, toDev, toCli, devLast, run,
                 connSession>>

\* _createSocket succeeded (an old socket is closed first); connect resets
\* the counters and sends CMD_CONNECT
_createSocket ==
  /\ impl = "node" /\ pc = "connect.socket"
  /\ socket' = TRUE
  /\ sessionId' = 0
  /\ replyId' = USHRT_MAX - 1
  /\ toCli' = <<>>
  /\ devStream' = <<>>
  /\ Send("connect.CONNECT", createHeader(CMD_CONNECT, <<>>, 0, USHRT_MAX - 1),
          <<>>, sentCmds)
  /\ run' = 0
  /\ UNCHANGED <<apart, impl, tcp, auxPc, auxOutcome, nStreams, nFaults, nOdd, rwb, isConnected, isEnabled, response, res, header,
                 devLast, connSession, nOps>>

\* _createSocket rejected (connect error or timeout): connect rejects
_createSocket_error ==
  /\ impl = "node" /\ pc = "connect.socket"
  /\ socket' = FALSE
  /\ toCli' = <<>>
  /\ devStream' = <<>>
  /\ pc' = "idle" /\ outcome' = "TransportError"
  /\ toDev' = <<>>
  /\ run' = -1
  /\ UNCHANGED <<apart, impl, tcp, auxPc, auxOutcome, nStreams, nFaults, nOdd, rwb, sessionId, replyId, isConnected, isEnabled,
                 response, res, header, wire, devLast, sentCmds, connSession,
                 nOps>>

\* the tail of connect: the check of `response`
connect_finish(r) ==
  IF ~r.status /\ r.code # CMD_ACK_OK
  THEN isConnected' = isConnected /\ Return("InvalidResponse", sentCmds)
  ELSE isConnected' = TRUE /\ Return("ok", sentCmds)

\* reply to CMD_CONNECT
connect_CONNECT_reply ==
  /\ impl = "node" /\ pc = "connect.CONNECT" /\ received
  /\ LET f == Head(toCli) IN
     /\ Recv(f)
     /\ sessionId' = readHeader(f).session
     /\ connSession' = readHeader(f).session
     /\ response' = result(f)
     /\ IF result(f).code = CMD_ACK_UNAUTH
        THEN /\ Send("connect.AUTH",
                     createHeader(CMD_AUTH, makeCommKey(password, readHeader(f).session),
                                  readHeader(f).session, recvReply(f)),
                     toDev, sentCmds)
             /\ isConnected' = isConnected
        ELSE connect_finish(result(f))
  /\ UNCHANGED <<apart, impl, tcp, nStreams, devStream, nFaults, nOdd, rwb, isEnabled, socket, devLast, nOps>>

\* reply to CMD_AUTH
connect_AUTH_reply ==
  /\ impl = "node" /\ pc = "connect.AUTH" /\ received
  /\ LET f == Head(toCli) IN
     /\ Recv(f)
     /\ sessionId' = _sendCommand_session(f)
     /\ response' = result(f)
     /\ connect_finish(result(f))
  /\ UNCHANGED <<apart, impl, tcp, nStreams, devStream, nFaults, nOdd, rwb, isEnabled, socket, devLast, connSession, nOps>>

\* a command of connect timed out or the socket reported an error
connect_throw ==
  /\ pc \in {"connect.CONNECT", "connect.AUTH"}
  /\ \E e \in Faults \cup {"FrameError"} :
        Return(e, sentCmds) /\ AuxFault(e) /\ Rejected(e)
  /\ UNCHANGED <<apart, impl, tcp, nStreams, devStream, nOdd, rwb, isConnected, isEnabled, socket, response, devLast,
                 connSession, nOps>>

\* ------------------------------------------------------------ base: connect
\* connect() of the base port up to `await this.__create_socket()`
base_connect ==
  /\ impl = "base" /\ pc = "idle" /\ nOps < MaxOps
  /\ nOps' = nOps + 1
  /\ sentCmds' = <<>>
  /\ pc' = "connect.socket" /\ outcome' = "none"
  /\ Fresh
  /\ UNCHANGED <<apart, impl, tcp, auxPc, auxOutcome, nStreams, devStream, nFaults, nOdd, rwb, sessionId, replyId, isConnected, isEnabled, socket,
                 wire, toDev, toCli, devLast, run,
                 connSession>>

\* __create_socket succeeded; connect resets the counters and sends CMD_CONNECT
__create_socket ==
  /\ impl = "base" /\ pc = "connect.socket"
  /\ socket' = TRUE
  /\ sessionId' = 0
  /\ replyId' = USHRT_MAX - 1
  /\ toCli' = <<>>
  /\ devStream' = <<>>
  /\ Send("connect.CONNECT", __create_header(CMD_CONNECT, <<>>, 0, USHRT_MAX - 1),
          <<>>, sentCmds)
  /\ run' = 0
  /\ UNCHANGED <<apart, impl, tcp, auxPc, auxOutcome, nStreams, nFaults, nOdd, rwb, isConnected, isEnabled, response, res, header,
                 devLast, connSession, nOps>>

\* the device cannot be reached (ping, or the stream socket does not connect)
__create_socket_error ==
  /\ impl = "base" /\ pc = "connect.socket"
  /\ socket' = FALSE
  /\ toCli' = <<>>
  /\ devStream' = <<>>
  /\ pc' = "idle" /\ outcome' = "TransportError"
  /\ toDev' = <<>>
  /\ run' = -1
  /\ UNCHANGED <<apart, impl, tcp, auxPc, auxOutcome, nStreams, nFaults, nOdd, rwb, sessionId, replyId, isConnected, isEnabled,
                 response, res, header, wire, devLast, sentCmds, connSession,
                 nOps>>

\* the tail of connect in the base port: it looks at `response`, the reply
\* to CMD_CONNECT
base_connect_finish(r) ==
  IF r.status
  THEN isConnected' = TRUE /\ Return("ok", sentCmds)
  ELSE /\ isConnected' = isConnected
       /\ IF r.code = CMD_ACK_UNAUTH
          THEN Return("Unauthenticated", sentCmds)
          ELSE Return("InvalidResponse", sentCmds)

base_connect_CONNECT_reply ==
  /\ impl = "base" /\ pc = "connect.CONNECT" /\ received
  /\ LET f == Head(toCli) IN
     /\ Recv(f)
     /\ sessionId' = readHeader(f).session
     /\ connSession' = readHeader(f).session
     /\ response' = result(f)
     /\ IF result(f).code = CMD_ACK_UNAUTH
        THEN /\ Send("connect.AUTH",
                     __create_header(CMD_AUTH, makeCommKey(password, readHeader(f).session),
                                     readHeader(f).session, recvReply(f)),
                     toDev, sentCmds)
             /\ isConnected' = isConnected
        ELSE base_connect_finish(result(f))
  /\ UNCHANGED <<apart, impl, tcp, nStreams, devStream, nFaults, nOdd, rwb, isEnabled, socket, devLast, nOps>>

\* reply to CMD_AUTH: its result is dropped, `response` is still the reply
\* to CMD_CONNECT
base_connect_AUTH_reply ==
  /\ impl = "base" /\ pc = "connect.AUTH" /\ received
  /\ LET f == Head(toCli) IN
     /\ Recv(f)
     /\ sessionId' = __send_command_session(f)
     /\ response' = response
     /\ base_connect_finish(response)
  /\ UNCHANGED <<apart, impl, tcp, nStreams, devStream, nFaults, nOdd, rwb, isEnabled, socket, devLast, connSession, nOps>>

\* -------------------------------------------------- enable / disable device
\* a one-command operation up to its await: refused when not connected
thin(label, command) ==
  /\ pc = "idle" /\ nOps < MaxOps
  /\ nOps' = nOps + 1
  /\ IF notConnected(command)
     THEN Return("NotConnected", <<>>) /\ run' = -1
     ELSE /\ Send(label, compose(command, <<>>, sessionId, replyId), toDev, <<>>)
          /\ run' = run
  /\ Fresh
  /\ UNCHANGED <<apart, impl, tcp, auxPc, auxOutcome, nStreams, devStream, nFaults, nOdd, rwb, sessionId, replyId, isConnected, isEnabled, socket,
                 toCli, devLast, connSession>>

\* the reply of a one-command operation that sets the enabled flag to en
thin_reply(label, en, failure) ==
  /\ pc = label /\ received
  /\ LET f == Head(toCli) IN
     /\ Recv(f)
     /\ sessionId' = recvSession(f)
     /\ IF result(f).status
        THEN isEnabled' = en /\ Return("ok", sentCmds)
        ELSE isEnabled' = isEnabled /\ Return(failure, sentCmds)
  /\ UNCHANGED <<apart, impl, tcp, nStreams, devStream, nFaults, nOdd, rwb, isConnected, socket, response, devLast,
                 connSession, nOps>>

\* enableDevice() / enable_device() up to its await
enableDevice ==
  /\ impl \in Impls
  /\ thin("enableDevice", CMD_ENABLEDEVICE)

enableDevice_reply ==
  /\ impl \in Impls
  /\ thin_reply("enableDevice", TRUE, "CannotEnable")

\* disableDevice() / disable_device() up to its await
disableDevice ==
  /\ impl \in Impls
  /\ thin("disableDevice", CMD_DISABLEDEVICE)

disableDevice_reply ==
  /\ impl \in Impls
  /\ thin_reply("disableDevice", FALSE, "CannotDisable")

\* the command of a one-command operation timed out or the socket failed
thin_throw ==
  /\ pc \in {"enableDevice", "disableDevice"}
  /\ \E e \in Faults \cup {"FrameError"} :
        Return(e, sentCmds) /\ AuxFault(e) /\ Rejected(e)
  /\ UNCHANGED <<apart, impl, tcp, nStreams, devStream, nOdd, rwb, isConnected, isEnabled, socket, response, devLast,
                 connSession, nOps>>

\* --------------------------------------------------------- node: disconnect
\* zk.disconnect() up to its first await
disconnect ==
  /\ impl = "node" /\ pc = "idle" /\ nOps < MaxOps
  /\ nOps' = nOps + 1
  /\ IF ~socket
     THEN Return("ok", <<>>) /\ run' = run
     ELSE IF notConnected(CMD_EXIT)
          THEN \* `Not connected` is caught, the socket is closed next
               /\ pc' = "disconnect.close" /\ outcome' = "none"
               /\ sentCmds' = <<>>
               /\ UNCHANGED <<wire, toDev>>
               /\ run' = -1
          ELSE /\ Send("disconnect.EXIT",
                       createHeader(CMD_EXIT, <<>>, sessionId, replyId), toDev, <<>>)
               /\ run' = run
  /\ Fresh
  /\ UNCHANGED <<apart, impl, tcp, auxPc, auxOutcome, nStreams, devStream, nFaults, nOdd, rwb, sessionId, replyId, isConnected, isEnabled, socket,
                 toCli, devLast, connSession>>

\* reply to CMD_EXIT, whatever its code
disconnect_EXIT_reply ==
  /\ impl = "node" /\ pc = "disconnect.EXIT" /\ received
  /\ LET f == Head(toCli) IN
     /\ Recv(f)
     /\ sessionId' = _sendCommand_session(f)
  /\ pc' = "disconnect.close"
  /\ UNCHANGED <<apart, impl, tcp, nStreams, devStream, nFaults, nOdd, rwb, isConnected, isEnabled, socket, response, outcome,
                 wire, toDev, devLast, sentCmds, connSession, nOps>>

\* CMD_EXIT timed out or the socket failed: the catch block swallows it
disconnect_EXIT_throw ==
  /\ impl = "node" /\ pc = "disconnect.EXIT"
  /\ pc' = "disconnect.close"
  /\ \E e \in Faults \cup {"FrameError"} : AuxFault(e) /\ Rejected(e)
  /\ UNCHANGED <<apart, impl, tcp, nStreams, devStream, nOdd, rwb, isConnected, isEnabled, socket, response, outcome,
                 wire, toDev, devLast, sentCmds, connSession, nOps>>

\* _closeSocket finished; disconnect clears the flag and returns
_closeSocket ==
  /\ impl = "node" /\ pc = "disconnect.close"
  /\ socket' = FALSE
  /\ isConnected' = FALSE
  /\ toDev' = <<>>
  /\ toCli' = <<>>
  /\ devStream' = <<>>
  /\ pc' = "idle" /\ outcome' = "ok"
  /\ UNCHANGED <<apart, impl, tcp, auxPc, auxOutcome, nStreams, nFaults, nOdd, rwb, sessionId, replyId, isEnabled, response, res,
                 header, wire, devLast, sentCmds, run, connSession, nOps>>

\* --------------------------------------------------------- base: disconnect
base_disconnect ==
  /\ impl = "base" /\ pc = "idle" /\ nOps < MaxOps
  /\ nOps' = nOps + 1
  /\ IF notConnected(CMD_EXIT)
     THEN Return("NotConnected", <<>>) /\ run' = -1
     ELSE /\ Send("disconnect.EXIT",
                  __create_header(CMD_EXIT, <<>>, sessionId, replyId), toDev, <<>>)
          /\ run' = run
  /\ Fresh
  /\ UNCHANGED <<apart, impl, tcp, auxPc, auxOutcome, nStreams, devStream, nFaults, nOdd, rwb, sessionId, replyId, isConnected, isEnabled, socket,
                 toCli, devLast, connSession>>

\* reply to CMD_EXIT: the socket is closed only when the reply is ok
base_disconnect_EXIT_reply ==
  /\ impl = "base" /\ pc = "disconnect.EXIT" /\ received
  /\ LET f == Head(toCli) IN
     /\ header' = readHeader(f)
     /\ res' = result(f)
     /\ replyId' = recvReply(f)
     /\ run' = IF run >= 0 /\ status(f.command) /\ f.reply = wire.reply
               THEN run + 1 ELSE -1
     /\ sessionId' = __send_command_session(f)
     /\ IF result(f).status
        THEN /\ isConnected' = FALSE
             /\ socket' = FALSE
             /\ toDev' = <<>>
             /\ toCli' = <<>>
             /\ devStream' = <<>>
             /\ pc' = "idle" /\ outcome' = "ok"
        ELSE /\ UNCHANGED <<isConnected, socket, toDev, devStream>>
             /\ toCli' = Tail(toCli)
             /\ pc' = "idle" /\ outcome' = "CantDisconnect"
  /\ UNCHANGED <<apart, impl, tcp, auxPc, auxOutcome, nStreams, nFaults, nOdd, rwb, isEnabled, response, wire, devLast, sentCmds,
                 connSession, nOps>>

\* CMD_EXIT timed out or the socket failed: disconnect rejects
base_disconnect_EXIT_throw ==
  /\ impl = "base" /\ pc = "disconnect.EXIT"
  /\ \E e \in Faults \cup {"FrameError"} :
        Return(e, sentCmds) /\ AuxFault(e) /\ Rejected(e)
  /\ UNCHANGED <<apart, impl, tcp, nStreams, devStream, nOdd, rwb, isConnected, isEnabled, socket, response, devLast,
                 connSession, nOps>>

\* ---------------------------------------------------------- node: bulk read
\* the argument of _CMD_PREPARE_BUFFER
prepareArg(command, fct, ext) == <<1, command, fct, ext>>

\* MAX_CHUNK / maxChunk of a bulk read
MAX_CHUNK == IF tcp THEN 65472 ELSE 16 * 1024

\* readWithBuffer: `remain` and `packets` for an announced size
remain(size) == size % MAX_CHUNK

packets(size) == (size - remain(size)) \div MAX_CHUNK

\* the plan without the test of `remain`: the tail of the buffer is not asked for
nextChunk_noRemain(size, i, start) ==
  IF i < packets(size) THEN <<start, MAX_CHUNK>> ELSE <<>>

\* readWithBuffer: what follows once start bytes are read and i full chunks
\* are done: the next chunk request <<start, size>>, or <<>> for CMD_FREE_DATA
nextChunk(size, i, start) ==
  IF i < packets(size) THEN <<start, MAX_CHUNK>>
  ELSE IF remain(size) # 0 /\ start < size THEN <<start, remain(size)>>
  ELSE <<>>

\* zk.readWithBuffer(CMD_USERTEMP_RRQ, FCT_USER) up to its first await
readWithBuffer ==
  /\ impl = "node" /\ pc = "idle" /\ nOps < MaxOps
  /\ nOps' = nOps + 1
  /\ rwb' = NoRwb
  /\ IF notConnected(_CMD_PREPARE_BUFFER)
     THEN Return("NotConnected", <<>>) /\ run' = -1
     ELSE /\ Send("rwb.PREPARE",
                  createHeader(_CMD_PREPARE_BUFFER,
                               prepareArg(CMD_USERTEMP_RRQ, FCT_USER, 0),
                               sessionId, replyId), toDev, <<>>)
          /\ run' = run
  /\ Fresh
  /\ UNCHANGED <<apart, impl, tcp, auxPc, auxOutcome, nStreams, devStream, nFaults, nOdd, sessionId, replyId, isConnected, isEnabled,
                 socket, toCli, devLast, connSession>>

\* readWithBuffer goes on after a chunk (or after the prepare reply): the
\* next _readChunk, or CMD_FREE_DATA when all chunks are in
readWithBuffer_next(f, size, i, start) ==
  LET nx == nextChunk(size, i, start) IN
  /\ rwb' = [size |-> size, i |-> i, start |-> start, tries |-> 0]
  /\ IF nx # <<>>
     THEN Send("rwb.CHUNK",
               createHeader(_CMD_READ_BUFFER, nx, recvSession(f), recvReply(f)),
               toDev, sentCmds)
     ELSE Send("rwb.FREE",
               createHeader(CMD_FREE_DATA, <<>>, recvSession(f), recvReply(f)),
               toDev, sentCmds)

\* reply to _CMD_PREPARE_BUFFER
readWithBuffer_PREPARE_reply ==
  /\ impl = "node" /\ pc = "rwb.PREPARE" /\ received
  /\ LET f == Head(toCli) IN
     /\ Recv(f)
     /\ sessionId' = _sendCommand_session(f)
     /\ IF ~result(f).status
        THEN Return("BufferedReadNotSupported", sentCmds) /\ rwb' = NoRwb
        ELSE IF result(f).code = CMD_DATA
        THEN Return("ok", sentCmds) /\ rwb' = NoRwb
        ELSE IF f.arg = <<>>
        THEN Return("RangeError", sentCmds) /\ rwb' = NoRwb
        ELSE readWithBuffer_next(f, f.arg[1], 0, 0)
  /\ UNCHANGED <<apart, impl, tcp, nStreams, devStream, nFaults, nOdd, isConnected, isEnabled, socket, response,
                 devLast, connSession, nOps>>

\* reply to the _CMD_READ_BUFFER of _readChunk
_readChunk_reply ==
  /\ impl = "node" /\ pc = "rwb.CHUNK" /\ received
  /\ LET f == Head(toCli)
         asked == nextChunk(rwb.size, rwb.i, rwb.start)[2] IN
     /\ Recv(f)
     /\ sessionId' = _sendCommand_session(f)
     /\ IF ~result(f).status /\ result(f).code # CMD_DATA
        THEN Return("CannotReadChunk", sentCmds) /\ rwb' = NoRwb
        ELSE readWithBuffer_next(f, rwb.size,
                                 IF rwb.i < packets(rwb.size)
                                   THEN rwb.i + 1 ELSE rwb.i,
                                 rwb.start + asked)
  /\ UNCHANGED <<apart, impl, tcp, nStreams, devStream, nFaults, nOdd, isConnected, isEnabled, socket, response,
                 devLast, connSession, nOps>>

\* reply to CMD_FREE_DATA: its status is not looked at
readWithBuffer_FREE_reply ==
  /\ impl = "node" /\ pc = "rwb.FREE" /\ received
  /\ LET f == Head(toCli) IN
     /\ Recv(f)
     /\ sessionId' = _sendCommand_session(f)
  /\ Return("ok", sentCmds)
  /\ rwb' = NoRwb
  /\ UNCHANGED <<apart, impl, tcp, nStreams, devStream, nFaults, nOdd, isConnected, isEnabled, socket, response,
                 devLast, connSession, nOps>>

\* a command of the bulk read timed out or the socket failed: nothing
\* catches it, readWithBuffer rejects
readWithBuffer_throw ==
  /\ impl = "node" /\ pc \in {"rwb.PREPARE", "rwb.CHUNK", "rwb.FREE"}
  /\ \E e \in Faults \cup {"FrameError"} :
        Return(e, sentCmds) /\ AuxFault(e) /\ Rejected(e)
  /\ rwb' = NoRwb
  /\ UNCHANGED <<apart, impl, tcp, nStreams, devStream, nOdd, isConnected, isEnabled, socket, response,
                 devLast, connSession, nOps>>

\* ---------------------------------------------------------- base: bulk read
\* read_with_buffer(CMD_USERTEMP_RRQ, FCT_USER) up to its first await
read_with_buffer ==
  /\ impl = "base" /\ pc = "idle" /\ nOps < MaxOps
  /\ nOps' = nOps + 1
  /\ rwb' = NoRwb
  /\ IF notConnected(_CMD_PREPARE_BUFFER)
     THEN Return("NotConnected", <<>>) /\ run' = -1
     ELSE /\ Send("rwb.PREPARE",
                  __create_header(_CMD_PREPARE_BUFFER,
                                  prepareArg(CMD_USERTEMP_RRQ, FCT_USER, 0),
                                  sessionId, replyId), toDev, <<>>)
          /\ run' = run
  /\ Fresh
  /\ UNCHANGED <<apart, impl, tcp, auxPc, auxOutcome, nStreams, devStream, nFaults, nOdd, sessionId, replyId, isConnected,
                 isEnabled, socket, toCli, devLast, connSession>>

\* read_with_buffer goes on after a chunk (or after the prepare reply): the
\* first attempt of the next __read_chunk, or free_data
read_with_buffer_next(size, i, start, sid, rid) ==
  LET nx == nextChunk(size, i, start) IN
  /\ rwb' = [size |-> size, i |-> i, start |-> start, tries |-> 0]
  /\ IF nx # <<>>
     THEN Send("rwb.CHUNK", __create_header(_CMD_READ_BUFFER, nx, sid, rid),
               toDev, sentCmds)
     ELSE Send("rwb.FREE", __create_header(CMD_FREE_DATA, <<>>, sid, rid),
               toDev, sentCmds)

\* the chunk asked for by the last _CMD_READ_BUFFER is in
__read_chunk_done(sid, rid) ==
  read_with_buffer_next(rwb.size,
                        IF rwb.i < packets(rwb.size) THEN rwb.i + 1 ELSE rwb.i,
                        rwb.start + wire.arg[2], sid, rid)

\* __recieve_chunk returned null: __read_chunk tries again, three times in all
__read_chunk_retry(sid, rid) ==
  IF rwb.tries + 1 < 3
  THEN /\ rwb' = [rwb EXCEPT !.tries = rwb.tries + 1]
       /\ Send("rwb.CHUNK", __create_header(_CMD_READ_BUFFER, wire.arg, sid, rid),
               toDev, sentCmds)
  ELSE Return("CantReadChunk", sentCmds) /\ rwb' = NoRwb

\* reply to _CMD_PREPARE_BUFFER
read_with_buffer_PREPARE_reply ==
  /\ impl = "base" /\ pc = "rwb.PREPARE" /\ received
  /\ LET f == Head(toCli) IN
     /\ Recv(f)
     /\ sessionId' = __send_command_session(f)
     /\ IF ~result(f).status
        THEN Return("RWBNotSupported", sentCmds) /\ rwb' = NoRwb
        ELSE IF result(f).code = CMD_DATA
        THEN Return("ok", sentCmds) /\ rwb' = NoRwb
        ELSE IF f.arg = <<>>
        THEN Return("RangeError", sentCmds) /\ rwb' = NoRwb
        ELSE read_with_buffer_next(f.arg[1], 0, 0, sessionId, recvReply(f))
  /\ UNCHANGED <<apart, impl, tcp, nStreams, devStream, nFaults, nOdd, isConnected, isEnabled, socket,
                 response, devLast, connSession, nOps>>

\* reply to the _CMD_READ_BUFFER of __read_chunk, then __recieve_chunk
__read_chunk_reply ==
  /\ impl = "base" /\ pc = "rwb.CHUNK" /\ received
  /\ LET f == Head(toCli) IN
     /\ Recv(f)
     /\ sessionId' = __send_command_session(f)
     /\ IF result(f).code = CMD_DATA
        THEN __read_chunk_done(sessionId, recvReply(f))
        ELSE IF result(f).code = CMD_PREPARE_DATA
        THEN IF f.arg = <<>>
             THEN Return("RangeError", sentCmds) /\ rwb' = NoRwb
             ELSE \* the data follows in further frames
                  /\ pc' = "rwb.CHUNK.data"
                  /\ UNCHANGED <<rwb, wire, toDev, sentCmds, outcome>>
        ELSE __read_chunk_retry(sessionId, recvReply(f))
  /\ UNCHANGED <<apart, impl, tcp, nStreams, devStream, nFaults, nOdd, isConnected, isEnabled, socket,
                 response, devLast, connSession, nOps>>

\* __recieve_chunk after CMD_PREPARE_DATA on the datagram carrier: CMD_DATA
\* frames are collected until another frame comes.  (Its branch for the stream
\* carrier is not reached: there __read_tcp(1024 + 8) does not return for a
\* reply to _CMD_PREPARE_BUFFER that announces a size, which is shorter.)
__recieve_chunk_data ==
  /\ impl = "base" /\ ~tcp /\ pc = "rwb.CHUNK.data" /\ toCli # <<>>
  /\ LET f == Head(toCli) IN
     IF f.command = CMD_DATA
     THEN UNCHANGED <<pc, rwb, wire, toDev, sentCmds, outcome>>
     ELSE __read_chunk_done(sessionId, replyId)
  /\ toCli' = Tail(toCli)
  /\ UNCHANGED <<apart, impl, tcp, auxPc, auxOutcome, nStreams, devStream, nFaults, nOdd, sessionId, replyId, isConnected,
                 isEnabled, socket, response, res, header, devLast, run,
                 connSession, nOps>>

\* reply to the CMD_FREE_DATA of free_data
free_data_reply ==
  /\ impl = "base" /\ pc = "rwb.FREE" /\ received
  /\ LET f == Head(toCli) IN
     /\ Recv(f)
     /\ sessionId' = __send_command_session(f)
     /\ IF result(f).status
        THEN Return("ok", sentCmds)
        ELSE Return("CantFreeData", sentCmds)
  /\ rwb' = NoRwb
  /\ UNCHANGED <<apart, impl, tcp, nStreams, devStream, nFaults, nOdd, isConnected, isEnabled, socket,
                 response, devLast, connSession, nOps>>

\* a receive of the bulk read timed out or the socket failed: nothing
\* catches it, read_with_buffer rejects
read_with_buffer_throw ==
  /\ impl = "base"
  /\ pc \in {"rwb.PREPARE", "rwb.CHUNK", "rwb.CHUNK.data", "rwb.FREE"}
  /\ \E e \in Faults \cup {"FrameError"} :
        Return(e, sentCmds) /\ AuxFault(e) /\ Rejected(e)
  /\ rwb' = NoRwb
  /\ UNCHANGED <<apart, impl, tcp, nStreams, devStream, nOdd, isConnected, isEnabled, socket, response,
                 devLast, connSession, nOps>>

\* ------------------------------------------- node: a call that is not awaited
\* The host calls freeData() while the operation it started before is still
\* suspended on its reply: nothing in the class queues or rejects the call.
\* The primitive composes the packet from the counters as they stand and
\* registers a receive listener of its own next to the one already there.
freeData ==
  /\ impl = "node" /\ pc \in WaitLabels /\ auxPc = "idle"
  /\ nOps < MaxOps + MaxCalls
  /\ nOps' = nOps + 1
  /\ run' = -1
  /\ IF notConnected(CMD_FREE_DATA)
     THEN /\ auxOutcome' = "NotConnected"
          /\ UNCHANGED <<auxPc, wire, toDev>>
     ELSE LET p == createHeader(CMD_FREE_DATA, <<>>, sessionId, replyId) IN
          /\ auxPc' = "wait"
          /\ auxOutcome' = "none"
          /\ wire' = written_as(p)
          /\ toDev' = Append(toDev, written_as(p))
  /\ UNCHANGED <<apart, impl, tcp, nStreams, devStream, nFaults, nOdd, rwb, sessionId,
                 replyId, isConnected, isEnabled, socket, pc, response, res,
                 header, outcome, toCli, devLast, sentCmds, connSession>>

\* a frame arrives while only the listener of that call is registered
freeData_reply ==
  /\ impl = "node" /\ auxPc = "wait" /\ pc \notin WaitLabels /\ socket
  /\ toCli # <<>>
  /\ LET f == Head(toCli) IN
     /\ toCli' = Tail(toCli)
     /\ auxPc' = "idle"
     /\ IF tcp /\ f.command = 0
        THEN auxOutcome' = "FrameError" /\ UNCHANGED <<sessionId, replyId>>
        ELSE /\ sessionId' = _sendCommand_session(f)
             /\ replyId' = recvReply(f)
             /\ auxOutcome' = IF status(readHeader(f).command) THEN "ok"
                              ELSE "CannotFreeData"
  /\ UNCHANGED <<apart, impl, tcp, nStreams, devStream, nFaults, nOdd, rwb,
                 isConnected, isEnabled, socket, pc, response, res, header,
                 outcome, wire, toDev, devLast, sentCmds, run, connSession, nOps>>

\* the timer of that call fires, or the socket reports an error to it
freeData_throw ==
  /\ impl = "node" /\ auxPc = "wait"
  /\ nFaults + nOdd + nStreams < MaxIrregular
  /\ nFaults' = nFaults + 1
  /\ auxPc' = "idle"
  /\ \E e \in (IF pc \in WaitLabels THEN {"Timeout"} ELSE Faults) :
        auxOutcome' = e
  /\ UNCHANGED <<apart, impl, tcp, nStreams, devStream, nOdd, rwb, sessionId, replyId,
                 isConnected, isEnabled, socket, pc, response, res, header,
                 outcome, wire, toDev, toCli, devLast, sentCmds, run,
                 connSession, nOps>>

\* ------------------------------------------------------------------ device
\* total lengths the device may announce for a prepared buffer
Sizes == IF tcp THEN {0, 100, 65472, 74565} ELSE {0, 100, 16384, 16484}

\* the payload the device puts in a reply to request q with code c:
\*   to _CMD_PREPARE_BUFFER  <<N>>, the announced total (u32 at offset 1),
\*                           <<>> when the payload is too short to hold it,
\*                           with CMD_DATA the length of the inline payload
\*   to _CMD_READ_BUFFER     with CMD_DATA the length of the payload
replyArgs(q, c) ==
  IF c = 0
    THEN {<<TcpTop + 8>>}
  ELSE IF q.command = _CMD_PREPARE_BUFFER /\ c \in {CMD_ACK_OK, CMD_PREPARE_DATA}
    THEN {<<n>> : n \in Sizes} \cup {<<>>}
  ELSE IF q.command = _CMD_PREPARE_BUFFER /\ c = CMD_DATA
    THEN {<<100>>, <<2000>>}
  ELSE IF q.command = _CMD_READ_BUFFER /\ c = CMD_DATA
    THEN {<<q.arg[2]>>}
  ELSE IF q.command = _CMD_READ_BUFFER /\ c = CMD_PREPARE_DATA
    THEN {<<q.arg[2]>>}
  ELSE {<<>>}

\* header fields of the replies the device may give to request q: any code
\* with the usual session and the echoed reply id
plainHeaders(q) ==
  {[command |-> c, session |-> DevSession, reply |-> q.reply] : c \in ReplyCodes}

\* ... and the deviating ones: a changed session, a reply id of its own, or
\* (stream carrier) sixteen bytes that do not begin with the magic words
\* 0x5050 0x8217, written here as a frame with command 0
oddHeaders(q) ==
  {[command |-> c, session |-> OtherSession, reply |-> q.reply] :
          c \in {CMD_ACK_OK, CMD_ACK_ERROR}}
  \cup {[command |-> CMD_ACK_OK, session |-> DevSession, reply |-> r] :
          r \in OddReplyIds}
  \cup (IF tcp THEN {[command |-> 0, session |-> OtherSession, reply |-> 65533]}
        ELSE {})

\* the replies in which the device announces with CMD_PREPARE_DATA a chunk
\* that it sends in further frames
streamHeaders(q) ==
  IF q.command = _CMD_READ_BUFFER
  THEN {[command |-> CMD_PREPARE_DATA, session |-> DevSession, reply |-> q.reply]}
  ELSE {}

\* the frames that follow such a reply: the data, then CMD_ACK_OK
streamed(f) ==
  << [command |-> CMD_DATA, session |-> f.session, reply |-> f.reply,
      arg |-> f.arg, no |-> f.no],
     [command |-> CMD_ACK_OK, session |-> f.session, reply |-> f.reply,
      arg |-> <<>>, no |-> f.no] >>

\* the device answers the oldest request it holds
DeviceReply ==
  /\ toDev # <<>>
  /\ devStream = <<>>
  /\ LET q == Head(toDev) IN
     \E h \in (plainHeaders(q) \ streamHeaders(q))
              \cup (IF nFaults + nOdd + nStreams < MaxIrregular THEN oddHeaders(q) ELSE {})
              \cup (IF nFaults + nOdd + nStreams < MaxIrregular THEN streamHeaders(q) ELSE {}) :
     \E a \in replyArgs(q, h.command) :
       LET f == [command |-> h.command, session |-> h.session,
                 reply |-> h.reply, arg |-> a, no |-> q.no] IN
       /\ toCli' = Append(toCli, f)
       /\ devLast' = f.reply
       /\ nOdd' = IF h \in oddHeaders(q) THEN nOdd + 1 ELSE nOdd
       /\ IF h \in streamHeaders(q)
          THEN devStream' = streamed(f) /\ nStreams' = nStreams + 1
          ELSE UNCHANGED <<devStream, nStreams>>
  /\ toDev' = Tail(toDev)
  /\ UNCHANGED <<apart, impl, tcp, auxPc, auxOutcome, nFaults, rwb, sessionId, replyId, isConnected, isEnabled, socket,
                 pc, response, res, header, outcome, wire, sentCmds, run,
                 connSession, nOps>>

\* the device sends the next frame of a chunk it announced
DeviceStream ==
  /\ devStream # <<>>
  /\ toCli' = Append(toCli, Head(devStream))
  /\ devStream' = Tail(devStream)
  /\ UNCHANGED <<apart, impl, tcp, auxPc, auxOutcome, nStreams, nFaults, nOdd, rwb, sessionId, replyId,
                 isConnected, isEnabled, socket, pc, response, res, header,
                 outcome, wire, toDev, devLast, sentCmds, run, connSession,
                 nOps>>

\* node-zk: a frame reaches the socket while no receive listener is
\* registered; the flowing stream / the datagram socket discards it
LostFrame ==
  /\ impl = "node" /\ socket /\ pc \notin WaitLabels /\ auxPc # "wait"
  /\ toCli # <<>>
  /\ toCli' = Tail(toCli)
  /\ UNCHANGED <<apart, impl, tcp, auxPc, auxOutcome, nStreams, devStream, nFaults, nOdd, rwb, sessionId, replyId, isConnected, isEnabled, socket,
                 pc, response, res, header, outcome, wire, toDev, devLast,
                 sentCmds, run, connSession, nOps>>

Next ==
  \/ connect
  \/ _createSocket
  \/ _createSocket_error
  \/ connect_CONNECT_reply
  \/ connect_AUTH_reply
  \/ connect_throw
  \/ base_connect
  \/ __create_socket
  \/ __create_socket_error
  \/ base_connect_CONNECT_reply
  \/ base_connect_AUTH_reply
  \/ enableDevice
  \/ enableDevice_reply
  \/ disableDevice
  \/ disableDevice_reply
  \/ thin_throw
  \/ disconnect
  \/ disconnect_EXIT_reply
  \/ disconnect_EXIT_throw
  \/ _closeSocket
  \/ base_disconnect
  \/ base_disconnect_EXIT_reply
  \/ base_disconnect_EXIT_throw
  \/ readWithBuffer
  \/ readWithBuffer_PREPARE_reply
  \/ _readChunk_reply
  \/ readWithBuffer_FREE_reply
  \/ readWithBuffer_throw
  \/ read_with_buffer
  \/ read_with_buffer_PREPARE_reply
  \/ __read_chunk_reply
  \/ __recieve_chunk_data
  \/ free_data_reply
  \/ read_with_buffer_throw
  \/ DeviceReply
  \/ DeviceStream
  \/ LostFrame

Spec == Init /\ [][Next]_vars

\* node-zk with a host that does not await: the operations of node-zk, the
\* call made meanwhile, and the device
InitAsync == Init /\ impl = "node"

NextAsync ==
  \/ connect
  \/ _createSocket
  \/ _createSocket_error
  \/ connect_CONNECT_reply
  \/ connect_AUTH_reply
  \/ connect_throw
  \/ enableDevice
  \/ enableDevice_reply
  \/ disableDevice
  \/ disableDevice_reply
  \/ thin_throw
  \/ disconnect
  \/ disconnect_EXIT_reply
  \/ disconnect_EXIT_throw
  \/ _closeSocket
  \/ readWithBuffer
  \/ readWithBuffer_PREPARE_reply
  \/ _readChunk_reply
  \/ readWithBuffer_FREE_reply
  \/ readWithBuffer_throw
  \/ freeData
  \/ freeData_reply
  \/ freeData_throw
  \/ DeviceReply
  \/ DeviceStream
  \/ LostFrame

SpecAsync == InitAsync /\ [][NextAsync]_vars

TypeOK ==
  /\ sessionId \in 0..USHRT_MAX
  /\ replyId \in 0..USHRT_MAX
  /\ pc \in WaitLabels \cup {"idle", "connect.socket", "disconnect.close"}
  /\ pc = "rwb.CHUNK.data" => impl = "base" /\ ~tcp
  /\ impl = "base" /\ tcp => pc \notin {"rwb.CHUNK", "rwb.FREE"}
  /\ auxPc \in {"idle", "wait"}


\* ------------------------------------------- stream carrier, byte by byte
\* `length` of the frames the device writes: a header alone, or a header
\* and four bytes of data
PayloadLens == {8, 12}

\* responseSize of the base port's requests: the default, and the one of
\* __read_chunk for a chunk of four bytes (size + 32)
ResponseSizes == {8, 4 + 32}

\* what readUInt32LE(4) gives on eight bytes that are not an envelope
JunkLengths == {0, 8, 65535}

\* offset of the first byte of the k-th frame
RECURSIVE frameStart(_)
frameStart(k) == IF k <= 1 THEN 0 ELSE frameStart(k - 1) + TcpTop + frames[k - 1]

\* bytes the device has written
written == frameStart(Len(frames) + 1)

\* sizes of a read event
EventSizes == 1..(MaxFrames * (TcpTop + 12))

\* the frame that starts at offset off, 0 when none does
frameAt(off) ==
  IF \E k \in 1..Len(frames) : frameStart(k) = off
  THEN CHOOSE k \in 1..Len(frames) : frameStart(k) = off
  ELSE 0

\* the eight bytes at offset off read as an envelope: _validateTcpTop /
\* __test_tcp_top on bytes 0..3 and readUInt32LE(4) on bytes 4..7.  Bytes
\* that are not an envelope hold device data, which may read as anything.
envelopeAt(off) ==
  IF frameAt(off) # 0
  THEN {[valid |-> TRUE, length |-> frames[frameAt(off)]]}
  ELSE {[valid |-> v, length |-> l] : v \in BOOLEAN, l \in JunkLengths}

\* what a request returns: its kind, how it ended, the frame at whose first byte the bytes it took
\* begin (0 when they begin elsewhere), and the bytes it returned: `size`
\* bytes after skipping `skip`.  The arguments name the bytes by their
\* offsets: taken from `at`, returned <<from, to>>.
Result(how, at, from, to) ==
  [kind |-> request.kind, status |-> how, frame |-> frameAt(at),
   skip |-> from - at, size |-> to - from]

\* the device writes a frame
DeviceWrite(length) ==
  /\ Len(frames) < MaxFrames
  /\ frames' = Append(frames, length)
  /\ UNCHANGED <<session, events, book, offline, arrived, tcpBuffer, request, returned, nRequests>>

\* node-zk _sendTcp / _recvTcpRaw up to the await: listeners and timer are
\* set, `chunks` is empty
listen(kind) ==
  /\ impl = "node" /\ request.pc = "idle"
  /\ nRequests < MaxRequests
  /\ nRequests' = nRequests + 1
  /\ request' = [pc |-> "wait", kind |-> kind, responseSize |-> 0]
  /\ returned' = NoResult
  /\ tcpBuffer' = [NoBuffer EXCEPT !.from = arrived]
  /\ UNCHANGED <<session, events, book, offline, frames, arrived>>

_sendTcp == /\ impl = "node" /\ listen("cmd")

_recvTcpRaw == /\ impl = "node" /\ listen("raw")

\* node-zk onData of _sendTcp and of _recvTcpRaw: a read event of n bytes
onData(n) ==
  /\ impl = "node" /\ request.pc = "wait"
  /\ n \in 1..(written - arrived)
  /\ arrived' = arrived + n
  /\ LET from  == tcpBuffer.from
         total == tcpBuffer.total + n
     IN \E env \in envelopeAt(from) :
        LET known  == tcpBuffer.target # -1
            target == IF known THEN tcpBuffer.target
                      ELSE IF total >= TcpTop THEN TcpTop + env.length ELSE -1
            valid  == IF known THEN tcpBuffer.valid ELSE env.valid
            size   == target - TcpTop
        IN IF target # -1 /\ total >= target
           THEN /\ tcpBuffer' = [NoBuffer EXCEPT !.from = arrived']
                /\ request' = NoRequest
                /\ returned' = IF request.kind = "raw"
                                THEN Result("ok", from, from, from + total)
                             ELSE IF ~valid
                                THEN Result("invalid", from, from, from)
                             ELSE Result("ok", from, from + TcpTop, from + TcpTop + size)
           ELSE /\ tcpBuffer' = [tcpBuffer EXCEPT !.total = total, !.target = target,
                                                  !.valid = valid]
                /\ UNCHANGED <<request, returned>>
  /\ UNCHANGED <<session, events, book, offline, frames, nRequests>>

\* node-zk: a read event while no 'data' listener is set.  The socket flows
\* since the first listener was set, and what it emits unheard is gone.
data_unheard(n) ==
  /\ impl = "node" /\ request.pc = "idle" /\ nRequests >= 1
  /\ n \in 1..(written - arrived)
  /\ arrived' = arrived + n
  /\ tcpBuffer' = [NoBuffer EXCEPT !.from = arrived']
  /\ UNCHANGED <<session, events, book, offline, frames, request, returned, nRequests>>

\* node-zk: the timer or onError of _sendTcp / _recvTcpRaw: cleanup(), reject
_sendTcp_reject ==
  /\ impl = "node" /\ request.pc = "wait"
  /\ \E e \in Faults : returned' = Result(e, tcpBuffer.from, tcpBuffer.from, tcpBuffer.from)
  /\ request' = NoRequest
  /\ tcpBuffer' = [NoBuffer EXCEPT !.from = arrived]
  /\ UNCHANGED <<session, events, book, offline, frames, arrived, nRequests>>

\* base port __send_command on the stream up to `await this.__write_tcp`
__write_tcp(responseSize) ==
  /\ impl = "base" /\ request.pc = "idle"
  /\ nRequests < MaxRequests
  /\ nRequests' = nRequests + 1
  /\ request' = [pc |-> "write", kind |-> "cmd", responseSize |-> responseSize]
  /\ returned' = NoResult
  /\ UNCHANGED <<session, events, book, offline, frames, arrived, tcpBuffer>>

\* base port __read_tcp(responseSize + 8) once the buffer holds that many
\* bytes, and __send_command on what it returns
__read_tcp_slice(total) ==
  LET length == request.responseSize + TcpTop
      from   == tcpBuffer.from
  IN /\ total >= length
     /\ tcpBuffer' = [tcpBuffer EXCEPT !.from = from + length, !.total = total - length]
     /\ request' = NoRequest
     /\ \E env \in envelopeAt(from) :
           returned' = IF env.valid /\ env.length # 0
                     THEN Result("ok", from, from + TcpTop, from + length)
                     ELSE Result("invalid", from, from, from)

\* base port __read_tcp: the buffer is tested when the write has completed
__read_tcp ==
  /\ impl = "base" /\ request.pc = "write"
  /\ IF tcpBuffer.total >= request.responseSize + TcpTop
     THEN __read_tcp_slice(tcpBuffer.total)
     ELSE /\ request' = [request EXCEPT !.pc = "wait"]
          /\ UNCHANGED <<tcpBuffer, returned>>
  /\ UNCHANGED <<session, events, book, offline, frames, arrived, nRequests>>

\* base port: the 'data' handler of __create_socket appends the read event
\* and wakes the waiter, which tests the buffer again
socket_data(n) ==
  /\ impl = "base"
  /\ n \in 1..(written - arrived)
  /\ arrived' = arrived + n
  /\ IF request.pc = "wait" /\ tcpBuffer.total + n >= request.responseSize + TcpTop
     THEN __read_tcp_slice(tcpBuffer.total + n)
     ELSE /\ tcpBuffer' = [tcpBuffer EXCEPT !.total = tcpBuffer.total + n]
          /\ UNCHANGED <<request, returned>>
  /\ UNCHANGED <<session, events, book, offline, frames, nRequests>>

\* base port __wait_for_tcp: the deadline passes, or the socket reports
\* 'error', 'close' or 'timeout'
__wait_for_tcp_reject ==
  /\ impl = "base" /\ request.pc = "wait"
  /\ \E e \in Faults : returned' = Result(e, tcpBuffer.from, tcpBuffer.from, tcpBuffer.from)
  /\ request' = NoRequest
  /\ UNCHANGED <<session, events, book, offline, frames, arrived, tcpBuffer, nRequests>>

InitStream == Init /\ tcp = TRUE

NextStream ==
  \/ \E length \in PayloadLens : DeviceWrite(length)
  \/ _sendTcp
  \/ _recvTcpRaw
  \/ \E n \in EventSizes : onData(n)
  \/ \E n \in EventSizes : data_unheard(n)
  \/ _sendTcp_reject
  \/ \E responseSize \in ResponseSizes : __write_tcp(responseSize)
  \/ __read_tcp
  \/ \E n \in EventSizes : socket_data(n)
  \/ __wait_for_tcp_reject

SpecStream == InitStream /\ [][NextStream]_vars

TypeOKStream ==
  /\ frames \in Seq(PayloadLens) /\ Len(frames) <= MaxFrames
  /\ arrived \in 0..written
  /\ tcpBuffer.from + tcpBuffer.total = arrived
  /\ request.pc \in {"idle", "write", "wait"}
  /\ nRequests \in 0..MaxRequests

\* ------------------------------------------- node: live capture, enrollment
\* The flows that read unsolicited frames with the raw receive primitive.
\* A command the flow awaits (_sendCommand: write, then reply or rejection) is
\* one step; what came of it is its outcome.
Outcomes == {"ok", "refused", "unanswered", "unheard"}

\* what the terminal does with a command it has received
deviceApplies(d, c, arg) ==
  IF c = CMD_ENABLEDEVICE THEN [d EXCEPT !.enabled = TRUE]
  ELSE IF c = CMD_DISABLEDEVICE THEN [d EXCEPT !.enabled = FALSE]
  ELSE IF c = CMD_REG_EVENT THEN [d EXCEPT !.events = arg[1]]
  ELSE d

\* the reply the terminal gives to packet p
answer(p, o) ==
  [command |-> IF o = "ok" THEN CMD_ACK_OK ELSE CMD_ACK_ERROR,
   session |-> DevSession, reply |-> p.reply, arg |-> <<>>, no |-> p.no]

\* _sendCommand(c, arg), awaited: the packet is written; the terminal applies
\* it unless it is lost ("unheard") or refused; the reply, when one arrives,
\* sets the session id and the reply id; no reply is a timeout
sendCommand(c, arg, o) ==
  /\ wire' = written_as(createHeader(c, arg, sessionId, replyId))
  /\ issued' = Append(issued, <<c, arg>>)
  /\ device' = IF o \in {"ok", "unanswered"} THEN deviceApplies(device, c, arg)
               ELSE device
  /\ IF o \in {"ok", "refused"}
     THEN /\ sessionId' = _sendCommand_session(answer(wire', o))
          /\ replyId' = recvReply(answer(wire', o))
     ELSE UNCHANGED <<sessionId, replyId>>

\* the awaited call threw: the primitive timed out, or the caller throws on a
\* reply that is not ok (cancelCapture returns the status instead)
threw(c, o) ==
  \/ o \in {"unanswered", "unheard"}
  \/ o = "refused" /\ c # CMD_CANCELCAPTURE

\* an acknowledgement that stored the reply id it wrote
_ackOk_stored ==
  /\ wire' = written_as(createHeader(CMD_ACK_OK, <<>>, sessionId, USHRT_MAX - 1))
  /\ sessionId' = sessionId
  /\ replyId' = nextReplyId(USHRT_MAX - 1)

\* _ackOk: the packet it writes, from the stored session id and the constant
\* reply id; neither field is assigned.  enrollUser and liveCapture swallow
\* its error
_ackOk ==
  /\ wire' = written_as(createHeader(CMD_ACK_OK, <<>>, sessionId, USHRT_MAX - 1))
  /\ UNCHANGED <<sessionId, replyId>>

\* ---- liveCapture
\* the command liveCapture awaits at each position outside its loop
captureCommand(at) ==
  CASE at = "getUsers" -> <<CMD_GET_FREE_SIZES, <<>>>>
    [] at = "cancelCapture" -> <<CMD_CANCELCAPTURE, <<>>>>
    [] at = "verifyUser" -> <<CMD_STARTVERIFY, <<>>>>
    [] at = "enableDevice" -> <<CMD_ENABLEDEVICE, <<>>>>
    [] at = "regEvent" -> <<CMD_REG_EVENT, <<EF_ATTLOG>>>>
    [] at = "regEvent0" -> <<CMD_REG_EVENT, <<0>>>>
    [] at = "disableDevice" -> <<CMD_DISABLEDEVICE, <<>>>>

CapturePcs == {"getUsers", "cancelCapture", "verifyUser", "enableDevice",
               "regEvent", "regEvent0", "disableDevice"}

\* the test of the loop made without looking at `running`
atTop_always(cap) == [cap EXCEPT !.pc = "recv"]

\* `while (running)`: the next raw receive starts, or the loop is left
atTop(cap) ==
  IF cap.running THEN [cap EXCEPT !.pc = "recv"] ELSE [cap EXCEPT !.pc = "regEvent0"]

\* width of the event record at the front of `data`
recordWidth(len) ==
  IF len < 12 THEN 10 ELSE IF len < 14 THEN 12 ELSE IF len < 52 THEN len ELSE 52

\* the 24-byte-id layout reads offsets 24 and 25: out of range in a short record
recordThrows(len) == len >= 14 /\ len < 26

\* `while (data.length >= 10)`: the next record is yielded, or reading it
\* throws (catch: yield null), or the loop is at its top again
parse(cap) ==
  IF cap.data >= 10
  THEN IF recordThrows(cap.data)
       THEN [cap EXCEPT !.pc = "yield.null", !.data = 0]
       ELSE [cap EXCEPT !.pc = "yield", !.data = cap.data - recordWidth(cap.data)]
  ELSE atTop([cap EXCEPT !.data = 0])

\* the flows leave the rest of the frame-level view alone
sessionRest == <<impl, tcp, isConnected, socket, pc, response, res, header, outcome,
                 auxPc, auxOutcome, rwb, toDev, toCli, devLast, devStream, nStreams,
                 sentCmds, run, connSession, nOps, nFaults, nOdd>>

\* the consumer's first pull: the body runs up to `await this.getUsers()`
liveCapture ==
  /\ capture.pc = "idle"
  /\ enroll.pc = "idle"
  /\ capture' = [capture EXCEPT !.pc = "getUsers", !.wasEnabled = isEnabled,
                                !.devWas = device.enabled]
  /\ issued' = <<>>
  /\ UNCHANGED <<session, stream, book, offline, enroll, device, nEvents>>

\* one awaited command of liveCapture outside the loop (the terminal holds no
\* user: getUsers is readSizes alone); then the code up to the next await
liveCapture_command(o) ==
  /\ capture.pc \in CapturePcs
  /\ LET at == capture.pc
         c == captureCommand(at)[1]
     IN /\ sendCommand(c, captureCommand(at)[2], o)
        /\ isEnabled' = IF o = "ok" /\ at = "enableDevice" THEN TRUE
                        ELSE IF o = "ok" /\ at = "disableDevice" THEN FALSE
                        ELSE isEnabled
        /\ capture' =
             IF threw(c, o) THEN [capture EXCEPT !.pc = "done", !.end = "throw"]
             ELSE CASE at = "getUsers" -> [capture EXCEPT !.pc = "cancelCapture"]
                    [] at = "cancelCapture" -> [capture EXCEPT !.pc = "verifyUser"]
                    [] at = "verifyUser" ->
                         [capture EXCEPT !.pc = IF ~isEnabled THEN "enableDevice"
                                                ELSE "regEvent"]
                    [] at = "enableDevice" -> [capture EXCEPT !.pc = "regEvent"]
                    [] at = "regEvent" ->
                         atTop([capture EXCEPT !.running = TRUE, !.looped = TRUE])
                    [] at = "regEvent0" ->
                         IF ~capture.wasEnabled
                         THEN [capture EXCEPT !.pc = "disableDevice"]
                         ELSE [capture EXCEPT !.pc = "done", !.end = "return"]
                    [] at = "disableDevice" ->
                         [capture EXCEPT !.pc = "done", !.end = "return"]
  /\ UNCHANGED <<sessionRest, stream, book, offline, enroll, nEvents>>

\* the raw receive of the loop resolves with a frame: its command, and the
\* length of what follows its header
liveCapture_recv(c, len) ==
  /\ capture.pc = "recv"
  /\ nEvents < MaxEvents
  /\ nEvents' = nEvents + 1
  /\ capture' = [capture EXCEPT !.pc = "ackOk", !.command = c, !.data = len]
  /\ UNCHANGED <<session, stream, book, offline, enroll, device, issued>>

\* the raw receive of the loop times out: catch, `yield null`
liveCapture_timeout ==
  /\ capture.pc = "recv"
  /\ capture' = [capture EXCEPT !.pc = "yield.null"]
  /\ UNCHANGED <<session, stream, book, offline, enroll, device, issued, nEvents>>

\* `await this._ackOk().catch(() => {})`, then the frame is looked at
liveCapture_ackOk ==
  /\ capture.pc = "ackOk"
  /\ _ackOk
  /\ capture' = IF capture.command # CMD_REG_EVENT THEN atTop([capture EXCEPT !.data = 0])
                ELSE parse(capture)
  /\ UNCHANGED <<sessionRest, isEnabled, stream, book, offline, enroll, device, issued, nEvents>>

\* the consumer pulls again: the generator resumes after its `yield`
next ==
  /\ capture.pc \in {"yield", "yield.null"}
  /\ capture' = IF capture.pc = "yield" THEN parse(capture) ELSE atTop(capture)
  /\ UNCHANGED <<session, stream, book, offline, enroll, device, issued, nEvents>>

\* the consumer abandons the stream (return() of the generator, `break` out of
\* for await): the body ends at the `yield` it is suspended at
return ==
  /\ capture.pc \in {"yield", "yield.null"}
  /\ capture' = [capture EXCEPT !.pc = "done", !.end = "abandoned"]
  /\ UNCHANGED <<session, stream, book, offline, enroll, device, issued, nEvents>>

\* the host calls this.end_live_capture(): stop() of the running capture
end_live_capture ==
  /\ capture.looped /\ capture.running
  /\ capture.pc # "done"
  /\ capture' = [capture EXCEPT !.running = FALSE, !.stoppedAt = capture.pc]
  /\ UNCHANGED <<session, stream, book, offline, enroll, device, issued, nEvents>>

\* ---- enrollUser
Null == -1

\* status codes a second scan event may carry
EnrollCodes == {0, 100, 5}

\* a raw frame as enrollUser sees it: whether it begins with a valid envelope,
\* its length, the words at offsets 8 and 16
EnrollBuffers ==
  [valid : BOOLEAN, length : {9, 17, 24}, at8 : EnrollCodes, at16 : EnrollCodes]

_extractEnrollCode(buffer) ==
  IF tcp
  THEN IF ~buffer.valid THEN Null
       ELSE IF buffer.length < 18 THEN Null
       ELSE buffer.at16
  ELSE IF buffer.length < 10 THEN Null
       ELSE buffer.at8

\* the test of the code written as `!resCode`: true of null as well
roundVerdict_falsy(resCode) ==
  IF resCode = 100 THEN "continue"
  ELSE IF resCode = 0 \/ resCode = Null THEN "success"
  ELSE "break"

\* what the loop of enrollUser does after a round with code resCode
roundVerdict(resCode) ==
  IF resCode = 100 THEN "continue"
  ELSE IF resCode = 0 THEN "success"
  ELSE "break"

attempts == 3

enrollCommand(at) ==
  CASE at = "getUsers" -> <<CMD_GET_FREE_SIZES, <<>>>>
    [] at = "cancelCapture" -> <<CMD_CANCELCAPTURE, <<>>>>
    [] at = "startEnroll" -> <<CMD_STARTENROLL, <<>>>>
    [] at = "regEvent0" -> <<CMD_REG_EVENT, <<0>>>>
    [] at = "cancelCapture2" -> <<CMD_CANCELCAPTURE, <<>>>>
    [] at = "verifyUser" -> <<CMD_STARTVERIFY, <<>>>>

EnrollPcs == {"getUsers", "cancelCapture", "startEnroll", "regEvent0",
              "cancelCapture2", "verifyUser"}

\* enrollUser({uid, tempId, userId}) up to its first await; `given`: a userId
\* was passed
enrollUser(given) ==
  /\ enroll.pc = "idle"
  /\ capture.pc = "idle"
  /\ enroll' = [enroll EXCEPT !.pc = IF given THEN "cancelCapture" ELSE "getUsers"]
  /\ issued' = <<>>
  /\ UNCHANGED <<session, stream, book, offline, capture, device, nEvents>>

\* one awaited command of enrollUser; then the code up to the next await
\* (the terminal holds no user: getUsers returns [], `found` is undefined)
enrollUser_command(o) ==
  /\ enroll.pc \in EnrollPcs
  /\ LET at == enroll.pc
         c == enrollCommand(at)[1]
     IN /\ sendCommand(c, enrollCommand(at)[2], o)
        /\ enroll' =
             IF threw(c, o) THEN [enroll EXCEPT !.pc = "done", !.end = "throw"]
             ELSE CASE at = "getUsers" -> [enroll EXCEPT !.pc = "done", !.end = "false"]
                    [] at = "cancelCapture" -> [enroll EXCEPT !.pc = "startEnroll"]
                    [] at = "startEnroll" ->
                         [enroll EXCEPT !.pc = "ev1", !.i = 0, !.began = TRUE]
                    [] at = "regEvent0" -> [enroll EXCEPT !.pc = "cancelCapture2"]
                    [] at = "cancelCapture2" -> [enroll EXCEPT !.pc = "verifyUser"]
                    [] at = "verifyUser" ->
                         [enroll EXCEPT !.pc = "done",
                                        !.end = IF enroll.success THEN "true" ELSE "false"]
  /\ UNCHANGED <<sessionRest, isEnabled, stream, book, offline, capture, nEvents>>

\* a raw receive of a round resolves with frame `buffer`
enrollUser_recv(buffer) ==
  /\ enroll.pc \in {"ev1", "ev2"}
  /\ enroll' = [enroll EXCEPT !.pc = IF enroll.pc = "ev1" THEN "ack1" ELSE "ack2",
                              !.ev = IF enroll.pc = "ev2" THEN buffer ELSE NoEvent,
                              !.steps = Append(enroll.steps, "recv")]
  /\ UNCHANGED <<session, stream, book, offline, capture, device, issued, nEvents>>

\* a raw receive of a round times out: enrollUser rejects
enrollUser_timeout ==
  /\ enroll.pc \in {"ev1", "ev2"}
  /\ enroll' = [enroll EXCEPT !.pc = "done", !.end = "throw"]
  /\ UNCHANGED <<session, stream, book, offline, capture, device, issued, nEvents>>

\* `await this._ackOk().catch(() => {})`; after the second one of a round the
\* code of the round is read and the loop continues or is left
enrollUser_ackOk ==
  /\ enroll.pc \in {"ack1", "ack2"}
  /\ _ackOk
  /\ LET acked == [enroll EXCEPT !.steps = Append(enroll.steps, "ack")]
         resCode == _extractEnrollCode(enroll.ev)
         verdict == roundVerdict(resCode)
         judged == [acked EXCEPT !.codes = Append(enroll.codes, resCode), !.ev = NoEvent]
     IN enroll' =
          IF enroll.pc = "ack1" THEN [acked EXCEPT !.pc = "ev2"]
          ELSE IF verdict = "continue"
               THEN IF enroll.i + 1 < attempts
                    THEN [judged EXCEPT !.pc = "ev1", !.i = enroll.i + 1]
                    ELSE [judged EXCEPT !.pc = "regEvent0", !.i = enroll.i + 1]
               ELSE [judged EXCEPT !.pc = "regEvent0", !.success = (verdict = "success")]
  /\ UNCHANGED <<sessionRest, isEnabled, stream, book, offline, capture, device, issued, nEvents>>

\* ---- the specification of the two flows

\* lengths of what follows the header of a frame received by liveCapture: no
\* record, one of 10 bytes, a short one of 22, one of 52 and one of 10
DataLens == {0, 10, 22, 62}

\* a connected session, the device enabled or not, the client's flag set or not
InitEvents ==
  /\ impl = "node"
  /\ tcp \in BOOLEAN
  /\ sessionId = DevSession
  /\ replyId = 0
  /\ isConnected = TRUE
  /\ isEnabled \in BOOLEAN
  /\ socket = TRUE
  /\ pc = "idle"
  /\ response = NoRes
  /\ res = NoRes
  /\ header = readHeader(NoPkt)
  /\ outcome = "none"
  /\ auxPc = "idle"
  /\ auxOutcome = "none"
  /\ rwb = NoRwb
  /\ wire = NoPkt
  /\ toDev = <<>>
  /\ toCli = <<>>
  /\ devLast = 0
  /\ devStream = <<>>
  /\ nStreams = 0
  /\ sentCmds = <<>>
  /\ run = 0
  /\ connSession = DevSession
  /\ nOps = 0
  /\ nFaults = 0
  /\ nOdd = 0
  /\ frames = <<>>
  /\ arrived = 0
  /\ tcpBuffer = NoBuffer
  /\ request = NoRequest
  /\ returned = NoResult
  /\ nRequests = 0
  /\ capture = NoCapture
  /\ enroll = NoEnroll
  /\ device \in [enabled : BOOLEAN, events : {0}]
  /\ issued = <<>>
  /\ nEvents = 0
  /\ nextUid = 1
  /\ nextUserId = "1"
  /\ usersCount = 0
  /\ userPacketSize = 28
  /\ job = NoJob
  /\ nJobs = 0
  /\ codec = NoCodec
  /\ scan = NoScan

\* a step of a flow that is not the host's or the consumer's doing
flowStep ==
  \/ \E o \in Outcomes : liveCapture_command(o)
  \/ \E c \in {CMD_REG_EVENT, CMD_ACK_OK}, len \in DataLens : liveCapture_recv(c, len)
  \/ liveCapture_timeout
  \/ liveCapture_ackOk
  \/ \E o \in Outcomes : enrollUser_command(o)
  \/ \E buffer \in EnrollBuffers : enrollUser_recv(buffer)
  \/ enrollUser_timeout
  \/ enrollUser_ackOk

NextEvents ==
  \/ liveCapture
  \/ flowStep
  \/ next
  \/ return
  \/ end_live_capture
  \/ \E given \in BOOLEAN : enrollUser(given)

SpecEvents == InitEvents /\ [][NextEvents]_vars

\* every awaited primitive resolves or rejects (each has a timer), and the
\* consumer keeps pulling while it has not abandoned the stream
SpecEventsFair == SpecEvents /\ WF_vars(flowStep) /\ WF_vars(next)

TypeOKEvents ==
  /\ capture.pc \in CapturePcs \cup {"idle", "recv", "ackOk", "yield", "yield.null", "done"}
  /\ enroll.pc \in EnrollPcs \cup {"idle", "ev1", "ack1", "ev2", "ack2", "done"}
  /\ device \in [enabled : BOOLEAN, events : {0, EF_ATTLOG}]
  /\ nEvents \in 0..MaxEvents
  /\ enroll.i \in 0..attempts
  /\ Len(enroll.codes) <= attempts

\* ------------------------------------ user table and template bulk write
\* getUsers (both implementations), setUser, deleteUser, HRSaveUserTemplates
\* (node-zk) on a connected session.  The bulk read inside getUsers, modelled
\* step by step in the frame-level view, is one step here: the terminal
\* answers _CMD_PREPARE_BUFFER with the records in a single CMD_DATA reply.

MaxJobs == 1
MaxUsers == 1
_sendWithBuffer_MAX_CHUNK == 1024
SHRT_MAX == 32767

\* String(n) of JavaScript for a natural number
Digit == <<"0", "1", "2", "3", "4", "5", "6", "7", "8", "9">>

RECURSIVE String(_)
String(n) ==
  IF n < 10 THEN Digit[n + 1] ELSE String(n \div 10) \o Digit[(n % 10) + 1]

\* records a terminal can hold: the uid and the user id string of each
Records == {[uid |-> 1, userId |-> "2"], [uid |-> 2, userId |-> "3"],
            [uid |-> 2, userId |-> "a"], [uid |-> USHRT_MAX, userId |-> "2"]}
UserLists == UNION {[1..n -> Records] : n \in 0..MaxUsers}

\* the packets a template bulk write can have to send, by length: the head
\* alone (less than a chunk), one chunk, one chunk and a byte, two chunks
PacketLengths == {12, _sendWithBuffer_MAX_CHUNK, _sendWithBuffer_MAX_CHUNK + 1, 2 * _sendWithBuffer_MAX_CHUNK}

\* `if (uid > maxUid) maxUid = uid` over the records parsed
RECURSIVE maxUid(_)
maxUid(us) ==
  IF us = <<>> THEN 0
  ELSE LET m == maxUid(Tail(us))
       IN IF Head(us).uid > m THEN Head(us).uid ELSE m

\* users.find((u) => u.userId === id): index of the first match, 0 for none
find(us, id) ==
  LET hits == {i \in 1..Len(us) : us[i].userId = id}
  IN IF hits = {} THEN 0 ELSE CHOOSE i \in hits : \A k \in hits : i <= k

\* the while loop at the end of getUsers: the first number from n on whose
\* decimal string is no record's user id
RECURSIVE unused(_, _)
unused(us, n) == IF find(us, String(n)) # 0 THEN unused(us, n + 1) ELSE n

\* the end of getUsers without the while loop
getUsers_next_max(us) == <<maxUid(us) + 1, String(maxUid(us) + 1)>>

\* the end of getUsers: the nextUid and the nextUserId it stores.  node-zk
\* advances both in the loop, the base port only the string
getUsers_next(us) ==
  IF impl = "node" THEN <<unused(us, maxUid(us) + 1), String(unused(us, maxUid(us) + 1))>>
  ELSE <<maxUid(us) + 1, String(unused(us, maxUid(us) + 1))>>

\* the operation ends
ended(j, how) == [j EXCEPT !.pc = "done", !.result = how]

\* setUser after `await this.getUsers()`: uid and userId default, the record
\* is packed (writeUInt16LE throws on a uid beyond 16 bits)
setUser_pack(j, nu) ==
  LET uid == IF j.uid # 0 THEN j.uid ELSE IF nu # 0 THEN nu ELSE 1
      userId == IF j.userId # "" THEN j.userId ELSE String(uid)
  IN IF uid > USHRT_MAX THEN ended([j EXCEPT !.uid = uid], "threw")
     ELSE [j EXCEPT !.pc = "wrq", !.uid = uid, !.userId = userId]

\* deleteUser with a uid in hand: `if (!uid) return false`; writeInt16LE
\* throws on a uid beyond 15 bits
deleteUser_pack(j, uid) ==
  IF uid = 0 THEN ended(j, "false")
  ELSE IF uid > SHRT_MAX THEN ended([j EXCEPT !.uid = uid], "threw")
  ELSE [j EXCEPT !.pc = "delete", !.uid = uid]

\* deleteUser after `await this.getUsers()`, taking the first record whatever its user id
deleteUser_found_first(j, us) ==
  IF us = <<>> THEN ended(j, "false") ELSE deleteUser_pack(j, us[1].uid)

\* deleteUser after `await this.getUsers()`: the user id is looked up
deleteUser_found(j, us) ==
  IF find(us, j.userId) = 0 THEN ended(j, "false")
  ELSE deleteUser_pack(j, us[find(us, j.userId)].uid)

\* getUsers returned list us to its caller, nextUid being nu
resumed(j, us, nu) ==
  CASE j.name = "getUsers" -> ended([j EXCEPT !.users = us], "users")
    [] j.name = "setUser" -> setUser_pack([j EXCEPT !.users = us], nu)
    [] j.name = "deleteUser" -> deleteUser_found([j EXCEPT !.users = us], us)

\* the reply to the command just awaited is noted: ok, or not ok and none
acked(j, o) == [j EXCEPT !.acks = Append(@, o = "ok")]

jobRest == <<sessionRest, isEnabled, stream, offline, capture, enroll, nEvents>>

\* an operation is invoked: the commands of the one before are forgotten
invoked(name, uid, userId, length) ==
  /\ job.pc \in {"idle", "done"}
  /\ nJobs < MaxJobs
  /\ nJobs' = nJobs + 1
  /\ issued' = <<>>
  /\ UNCHANGED <<session, stream, offline, capture, enroll, device, nEvents,
                 nextUid, nextUserId, usersCount, userPacketSize>>
  /\ LET j == [NoJob EXCEPT !.name = name, !.uid = uid, !.userId = userId,
                            !.length = length]
     IN job' = CASE name \in {"getUsers", "setUser"} -> [j EXCEPT !.pc = "sizes"]
                 [] name = "deleteUser" ->
                      IF uid = 0 /\ userId # "" THEN [j EXCEPT !.pc = "sizes"]
                      ELSE deleteUser_pack(j, uid)
                 [] name = "HRSaveUserTemplates" -> [j EXCEPT !.pc = "free"]

getUsers == impl \in Impls /\ invoked("getUsers", 0, "", 0)

setUser(uid, userId) == impl = "node" /\ invoked("setUser", uid, userId, 0)

deleteUser(uid, userId) == impl = "node" /\ invoked("deleteUser", uid, userId, 0)

HRSaveUserTemplates(length) ==
  impl = "node" /\ invoked("HRSaveUserTemplates", 0, "", length)

\* readSizes: `this.userPacketSize = this.userPacketSize || 28`; the base
\* port's read_sizes leaves the width alone
readSizes_width(w) == IF impl = "node" /\ w = 0 THEN 28 ELSE w

\* getUsers: the record width cached from the first four bytes of the buffer.
\* node-zk: Math.floor(totalSize / this.usersCount) || 28; base port:
\* totalSize / this.users (the quotient is exact for the sizes drawn here)
getUsers_width(totalSize) ==
  IF impl = "node" /\ totalSize \div usersCount = 0 THEN 28
  ELSE totalSize \div usersCount

\* readSizes inside getUsers: count is fields[4] of the reply, Null when the
\* reply is shorter than 80 bytes and the cached count stays
readSizes(o, count) ==
  /\ job.pc = "sizes"
  /\ threw(CMD_GET_FREE_SIZES, o) => count = Null
  /\ sendCommand(CMD_GET_FREE_SIZES, <<>>, o)
  /\ IF threw(CMD_GET_FREE_SIZES, o)
     THEN /\ job' = ended(acked(job, o), "threw")
          /\ UNCHANGED <<nextUid, nextUserId, usersCount, userPacketSize>>
     ELSE /\ usersCount' = IF count = Null THEN usersCount ELSE count
          /\ userPacketSize' = IF count = Null THEN userPacketSize
                               ELSE readSizes_width(userPacketSize)
          /\ IF usersCount' = 0
             THEN /\ nextUid' = 1
                  /\ nextUserId' = "1"
                  /\ job' = resumed(acked(job, o), <<>>, 1)
             ELSE /\ job' = [acked(job, o) EXCEPT !.pc = "enumerate"]
                  /\ UNCHANGED <<nextUid, nextUserId>>
  /\ UNCHANGED <<jobRest, nJobs>>

\* the bulk read inside getUsers and what follows it: short is `size <= 4`,
\* totalSize the first four bytes of the buffer, us the records parsed out of it
getUsers_readWithBuffer(o, short, totalSize, us) ==
  /\ job.pc = "enumerate"
  /\ (threw(_CMD_PREPARE_BUFFER, o) \/ short) => (totalSize = 0 /\ us = <<>>)
  /\ sendCommand(_CMD_PREPARE_BUFFER, <<1, CMD_USERTEMP_RRQ, FCT_USER, 0>>, o)
  /\ IF threw(_CMD_PREPARE_BUFFER, o)
     THEN /\ job' = ended(acked(job, o), "threw")
          /\ UNCHANGED <<nextUid, nextUserId, userPacketSize>>
     ELSE IF short
     THEN /\ job' = resumed(acked(job, o), <<>>, nextUid)
          /\ UNCHANGED <<nextUid, nextUserId, userPacketSize>>
     ELSE /\ userPacketSize' = getUsers_width(totalSize)
          /\ nextUid' = getUsers_next(us)[1]
          /\ nextUserId' = getUsers_next(us)[2]
          /\ job' = resumed(acked(job, o), us, nextUid')
  /\ UNCHANGED <<jobRest, usersCount, nJobs>>

\* setUser: the reply to CMD_USER_WRQ
setUser_reply(o) ==
  /\ job.pc = "wrq"
  /\ sendCommand(CMD_USER_WRQ, <<job.uid>>, o)
  /\ job' = IF threw(CMD_USER_WRQ, o) THEN ended(acked(job, o), "threw")
            ELSE [acked(job, o) EXCEPT !.pc = "refresh"]
  /\ UNCHANGED <<jobRest, nextUid, nextUserId, usersCount, userPacketSize, nJobs>>

\* deleteUser: the reply to CMD_DELETE_USER
deleteUser_reply(o) ==
  /\ job.pc = "delete"
  /\ sendCommand(CMD_DELETE_USER, <<job.uid>>, o)
  /\ job' = IF threw(CMD_DELETE_USER, o) THEN ended(acked(job, o), "threw")
            ELSE [acked(job, o) EXCEPT !.pc = "refresh"]
  /\ UNCHANGED <<jobRest, nextUid, nextUserId, usersCount, userPacketSize, nJobs>>

\* setUser after refreshData with the counter left alone
advanced_never(j) == <<nextUid, nextUserId>>

\* setUser after refreshData: `if (uid === this.nextUid)`
advanced(j) ==
  IF j.name = "setUser" /\ j.uid = nextUid
  THEN <<nextUid + 1, String(nextUid + 1)>>
  ELSE <<nextUid, nextUserId>>

\* refreshData at the end of setUser, deleteUser and HRSaveUserTemplates
refreshData(o) ==
  /\ job.pc = "refresh"
  /\ sendCommand(CMD_REFRESHDATA, <<>>, o)
  /\ IF threw(CMD_REFRESHDATA, o)
     THEN /\ job' = ended(acked(job, o), "threw")
          /\ UNCHANGED <<nextUid, nextUserId>>
     ELSE /\ job' = ended(acked(job, o), IF job.name = "HRSaveUserTemplates" THEN "undefined"
                               ELSE "true")
          /\ nextUid' = advanced(job)[1]
          /\ nextUserId' = advanced(job)[2]
  /\ UNCHANGED <<jobRest, usersCount, userPacketSize, nJobs>>

\* clearData is invoked: here, as the first operation or after an enumeration
clearData ==
  /\ impl = "node"
  /\ job.pc \in {"idle", "done"}
  /\ job.name \in {"none", "getUsers"}
  /\ job' = [NoJob EXCEPT !.name = "clearData", !.pc = "clear"]
  /\ issued' = <<>>
  /\ UNCHANGED <<session, stream, offline, capture, enroll, device, nEvents,
                 nextUid, nextUserId, usersCount, userPacketSize, nJobs>>

\* clearData after the reply: `this.nextUid = 1`
cleared == <<1, nextUserId>>

\* clearData: the reply to CMD_CLEAR_DATA
clearData_reply(o) ==
  /\ job.pc = "clear"
  /\ sendCommand(CMD_CLEAR_DATA, <<>>, o)
  /\ IF threw(CMD_CLEAR_DATA, o)
     THEN /\ job' = ended(acked(job, o), "threw")
          /\ UNCHANGED <<nextUid, nextUserId>>
     ELSE /\ job' = ended(acked(job, o), "true")
          /\ nextUid' = cleared[1]
          /\ nextUserId' = cleared[2]
  /\ UNCHANGED <<jobRest, usersCount, userPacketSize, nJobs>>

\* _sendWithBuffer goes on after CMD_PREPARE_DATA or a chunk
sending(j) ==
  IF j.start < j.length THEN [j EXCEPT !.pc = "chunk"] ELSE [j EXCEPT !.pc = "save"]

\* _sendWithBuffer: freeData
_sendWithBuffer_freeData(o) ==
  /\ job.pc = "free"
  /\ sendCommand(CMD_FREE_DATA, <<>>, o)
  /\ job' = IF threw(CMD_FREE_DATA, o) THEN ended(acked(job, o), "threw")
            ELSE [acked(job, o) EXCEPT !.pc = "prepare"]
  /\ UNCHANGED <<jobRest, nextUid, nextUserId, usersCount, userPacketSize, nJobs>>

\* _sendWithBuffer: CMD_PREPARE_DATA with the length of the packet
_sendWithBuffer_prepare(o) ==
  /\ job.pc = "prepare"
  /\ sendCommand(CMD_PREPARE_DATA, <<job.length>>, o)
  /\ job' = IF threw(CMD_PREPARE_DATA, o) THEN ended(acked(job, o), "threw")
            ELSE sending(acked(job, o))
  /\ UNCHANGED <<jobRest, nextUid, nextUserId, usersCount, userPacketSize, nJobs>>

\* the slice every chunk is cut to, were the last one a full chunk as well
chunkLength_full(j) == _sendWithBuffer_MAX_CHUNK

\* the length of buffer.slice(start, start + MAX_CHUNK) or buffer.slice(start)
chunkLength(j) ==
  IF j.start + _sendWithBuffer_MAX_CHUNK <= j.length THEN _sendWithBuffer_MAX_CHUNK ELSE j.length - j.start

\* _sendChunk: a chunk is named by its offset in the packet and its length
_sendChunk(o) ==
  /\ job.pc = "chunk"
  /\ sendCommand(CMD_DATA, <<job.start, chunkLength(job)>>, o)
  /\ job' = IF threw(CMD_DATA, o) THEN ended(acked(job, o), "threw")
            ELSE sending([acked(job, o) EXCEPT !.start = @ + chunkLength(job)])
  /\ UNCHANGED <<jobRest, nextUid, nextUserId, usersCount, userPacketSize, nJobs>>

\* the payload of _CMD_SAVE_USERTEMPS carrying the length of the packet
saveUserTemps_length(j) == <<j.length, 0, 8>>

\* HRSaveUserTemplates: the payload of _CMD_SAVE_USERTEMPS
saveUserTemps(j) == <<12, 0, 8>>

\* HRSaveUserTemplates: the reply to _CMD_SAVE_USERTEMPS
HRSaveUserTemplates_save(o) ==
  /\ job.pc = "save"
  /\ sendCommand(_CMD_SAVE_USERTEMPS, saveUserTemps(job), o)
  /\ job' = IF threw(_CMD_SAVE_USERTEMPS, o) THEN ended(acked(job, o), "threw")
            ELSE [acked(job, o) EXCEPT !.pc = "refresh"]
  /\ UNCHANGED <<jobRest, nextUid, nextUserId, usersCount, userPacketSize, nJobs>>

GivenUids == {0, 1}
GivenUserIds == {"", "2"}
Counts == {Null, 0, 1, 2}
TotalSizes == {0, 56, 72}

InitUsers ==
  /\ impl \in Impls
  /\ tcp = TRUE
  /\ sessionId = DevSession
  /\ replyId = 0
  /\ isConnected = TRUE
  /\ isEnabled = TRUE
  /\ socket = TRUE
  /\ pc = "idle"
  /\ response = NoRes
  /\ res = NoRes
  /\ header = readHeader(NoPkt)
  /\ outcome = "none"
  /\ auxPc = "idle"
  /\ auxOutcome = "none"
  /\ rwb = NoRwb
  /\ wire = NoPkt
  /\ toDev = <<>>
  /\ toCli = <<>>
  /\ devLast = 0
  /\ devStream = <<>>
  /\ nStreams = 0
  /\ sentCmds = <<>>
  /\ run = 0
  /\ connSession = DevSession
  /\ nOps = 0
  /\ nFaults = 0
  /\ nOdd = 0
  /\ frames = <<>>
  /\ arrived = 0
  /\ tcpBuffer = NoBuffer
  /\ request = NoRequest
  /\ returned = NoResult
  /\ nRequests = 0
  /\ capture = NoCapture
  /\ enroll = NoEnroll
  /\ device = [enabled |-> TRUE, events |-> 0]
  /\ issued = <<>>
  /\ nEvents = 0
  /\ nextUid = 1
  /\ nextUserId = "1"
  /\ usersCount = 0
  /\ userPacketSize = 28
  /\ job = NoJob
  /\ nJobs = 0
  /\ codec = NoCodec
  /\ scan = NoScan

NextUsers ==
  \/ getUsers
  \/ \E uid \in GivenUids, userId \in GivenUserIds : setUser(uid, userId)
  \/ \E uid \in GivenUids, userId \in GivenUserIds : deleteUser(uid, userId)
  \/ \E length \in PacketLengths : HRSaveUserTemplates(length)
  \/ \E o \in Outcomes, count \in Counts : readSizes(o, count)
  \/ \E o \in Outcomes, short \in BOOLEAN, totalSize \in TotalSizes, us \in UserLists :
        getUsers_readWithBuffer(o, short, totalSize, us)
  \/ \E o \in Outcomes : setUser_reply(o)
  \/ \E o \in Outcomes : deleteUser_reply(o)
  \/ \E o \in Outcomes : refreshData(o)
  \/ \E o \in Outcomes : _sendWithBuffer_freeData(o)
  \/ \E o \in Outcomes : _sendWithBuffer_prepare(o)
  \/ \E o \in Outcomes : _sendChunk(o)
  \/ \E o \in Outcomes : HRSaveUserTemplates_save(o)
  \/ clearData
  \/ \E o \in Outcomes : clearData_reply(o)

SpecUsers == InitUsers /\ [][NextUsers]_vars

TypeOKUsers ==
  /\ nextUid \in 1..(USHRT_MAX + MaxUsers + MaxJobs + 1)
  /\ nextUserId \in STRING
  /\ usersCount \in 0..2
  /\ userPacketSize \in 0..72
  /\ nJobs \in 0..MaxJobs
  /\ job.pc \in {"idle", "sizes", "enumerate", "wrq", "delete", "refresh",
                 "free", "prepare", "chunk", "save", "clear", "done"}
  /\ job.result \in {"none", "users", "true", "false", "undefined", "threw"}
  /\ job.start \in 0..job.length
  /\ Len(job.acks) = Len(issued)

\* ------------------------------------------------------ codec, byte by byte
\* The codec functions of node-zk's utils and of the base port on buffers: a
\* buffer is the sequence of its bytes.

\* buf.writeUInt16LE(value): the two bytes written
writeUInt16LE(value) == <<value % 256, value \div 256>>

\* buffer.readUInt16LE(offset)
readUInt16LE(buffer, offset) == buffer[offset + 1] + 256 * buffer[offset + 2]

\* the first loop of both checksum routines: the 16-bit words are added, and
\* USHRT_MAX is taken off once whenever the sum is above it
RECURSIVE words(_, _, _)
words(buffer, idx, checksum) ==
  IF Len(buffer) - idx > 1
  THEN LET added == checksum + readUInt16LE(buffer, idx)
       IN words(buffer, idx + 2, IF added > USHRT_MAX THEN added - USHRT_MAX ELSE added)
  ELSE checksum

\* `while (checksum > USHRT_MAX) checksum -= USHRT_MAX`
RECURSIVE lowered(_)
lowered(checksum) ==
  IF checksum > USHRT_MAX THEN lowered(checksum - USHRT_MAX) ELSE checksum

\* both routines up to the complement: the words, the odd last byte, the fold
summed(buffer) ==
  LET checksum == words(buffer, 0, 0)
  IN lowered(IF Len(buffer) % 2 = 1 THEN checksum + buffer[Len(buffer)] ELSE checksum)

\* a checksum routine that leaves the complement out
createChecksum_plain(buffer) == summed(buffer) % 65536

\* createChecksum of utils: `(~checksum) & 0xffff`
createChecksum(buffer) == (-summed(buffer) - 1) % 65536

\* `while (checksum < 0) checksum += USHRT_MAX`
RECURSIVE raised(_)
raised(checksum) ==
  IF checksum < 0 THEN raised(checksum + USHRT_MAX) ELSE checksum

\* __create_checksum of the base port: `~checksum`, raised above zero by
\* USHRT_MAX, `& 0xffff`
__create_checksum(buffer) == raised(-summed(buffer) - 1) % 65536

\* createHeader of utils: the checksum is taken over the header that carries
\* the next reply id, followed by the payload
createHeader_bytes(command, commandString, sid, rid) ==
  LET merged == writeUInt16LE(command) \o <<0, 0>> \o writeUInt16LE(sid)
                 \o writeUInt16LE(nextReplyId(rid))
      checksum == createChecksum(merged \o commandString)
  IN writeUInt16LE(command) \o writeUInt16LE(checksum) \o writeUInt16LE(sid)
       \o writeUInt16LE(nextReplyId(rid)) \o commandString

\* a base composer that uses the routine of utils on its payload
__create_header_bytes_utils(command, commandString, sid, rid) ==
  LET payload == writeUInt16LE(command) \o <<0, 0>> \o writeUInt16LE(sid)
                  \o writeUInt16LE(rid) \o commandString
      checksum == createChecksum(payload)
  IN writeUInt16LE(command) \o writeUInt16LE(checksum) \o writeUInt16LE(sid)
       \o writeUInt16LE(nextReply(rid)) \o commandString

\* __create_header of the base port: the checksum is taken over the packet
\* that carries the reply id as given; the packet returned carries the next
__create_header_bytes(command, commandString, sid, rid) ==
  LET payload == writeUInt16LE(command) \o <<0, 0>> \o writeUInt16LE(sid)
                  \o writeUInt16LE(rid) \o commandString
      checksum == __create_checksum(payload)
  IN writeUInt16LE(command) \o writeUInt16LE(checksum) \o writeUInt16LE(sid)
       \o writeUInt16LE(nextReply(rid)) \o commandString

\* readHeader of utils on the first 8 bytes
readHeader_bytes(buffer) ==
  <<readUInt16LE(buffer, 0), readUInt16LE(buffer, 2), readUInt16LE(buffer, 4),
    readUInt16LE(buffer, 6)>>

\* the packet with its checksum field zeroed
zeroed(buffer) == [i \in 1..Len(buffer) |-> IF i \in {3, 4} THEN 0 ELSE buffer[i]]

\* ---- time
\* A 32-bit number n of the time codec is held as the pair of n \div 86400 and
\* n % 86400: half of the 32-bit numbers are above the largest integer of the
\* model checker.  86400 = 24 * 60 * 60, so the first three divisions of
\* decodeTime work on the second part and the others on the first.
DAY == 86400

\* 2^32 = UINT32_DAYS * 86400 + UINT32_SECS
UINT32_DAYS == 49710
UINT32_SECS == 23296

\* the pair is a 32-bit number
isUInt32(n) ==
  n.days < UINT32_DAYS \/ (n.days = UINT32_DAYS /\ n.secs < UINT32_SECS)

\* `d >>> 0` for a d of 0 .. 2^33 - 1
toUInt32(n) ==
  IF isUInt32(n) THEN n
  ELSE IF n.secs >= UINT32_SECS
       THEN [days |-> n.days - UINT32_DAYS, secs |-> n.secs - UINT32_SECS]
       ELSE [days |-> n.days - UINT32_DAYS - 1, secs |-> n.secs + DAY - UINT32_SECS]

\* days of a month of the calendar (monthIndex from 0)
daysIn(year, monthIndex) ==
  IF monthIndex = 1
  THEN IF year % 4 = 0 /\ (year % 100 # 0 \/ year % 400 = 0) THEN 29 ELSE 28
  ELSE IF monthIndex \in {3, 5, 8, 10} THEN 30 ELSE 31

\* new Date(year, monthIndex, day, hours, minutes, seconds) for a day of 1..31
\* (in a time zone without daylight saving): a day past the end of the month
\* is carried into the next month
Date(year, monthIndex, day, hours, minutes, seconds) ==
  LET over == day > daysIn(year, monthIndex)
  IN [year |-> year,
      month |-> IF over THEN monthIndex + 1 ELSE monthIndex,
      date |-> IF over THEN day - daysIn(year, monthIndex) ELSE day,
      hours |-> hours, minutes |-> minutes, seconds |-> seconds]

\* decodeTime of utils, on the 32-bit number read from the buffer
decodeTime(raw) ==
  LET second == raw.secs % 60
      t1 == raw.secs \div 60
      minute == t1 % 60
      t2 == t1 \div 60
      hour == t2 % 24
      t3 == raw.days
      day == (t3 % 31) + 1
      t4 == t3 \div 31
      month == (t4 % 12) + 1
      year == (t4 \div 12) + 2000
  IN Date(year, month - 1, day, hour, minute, second)

\* encodeTime of utils
encodeTime(dt) ==
  LET year == dt.year % 100
      month == dt.month + 1
      day == dt.date
  IN toUInt32([days |-> (year * 12 * 31) + ((month - 1) * 31) + day - 1,
               secs |-> (dt.hours * 60 + dt.minutes) * 60 + dt.seconds])

\* the number that encodes the tuple (Y years since 2000)
encoded(Y, M, D, h, m, s) ==
  [days |-> (Y * 12 + (M - 1)) * 31 + (D - 1), secs |-> (h * 60 + m) * 60 + s]

\* ---- the specification of the codec
Commands == {0, 1, CMD_CONNECT, USHRT_MAX}
SessionIds == {0, 1, USHRT_MAX}
ReplyIds == {0, 1, USHRT_MAX - 2, USHRT_MAX - 1, USHRT_MAX}
CommandStrings == {<<>>, <<0>>, <<0, 0>>, <<1>>, <<255, 255>>, <<254, 255, 1>>}
Buffers ==
  {<<>>, <<1>>, <<0, 0>>, <<255, 255>>, <<255, 255, 255, 255>>, <<255, 255, 1>>,
   <<232, 3, 0, 0, 0, 0, 254, 255>>, <<232, 3, 0, 0, 0, 0, 0, 0>>,
   <<0, 0, 0, 0, 0, 0, 0, 0>>}
Years == {0, 23, 24, 99, 100, 133}
Months == {1, 2, 4, 12}
Days == {1, 28, 29, 30, 31}

HeaderInputs ==
  {[NoCodec EXCEPT !.op = "header", !.pc = "given", !.command = c, !.data = d,
                   !.sessionId = s, !.replyId = r] :
     c \in Commands, d \in CommandStrings, s \in SessionIds, r \in ReplyIds}

ChecksumInputs ==
  {[NoCodec EXCEPT !.op = "checksum", !.pc = "given", !.data = b] : b \in Buffers}

TimeInputs ==
  {[NoCodec EXCEPT !.op = "time", !.pc = "given", !.x = x] :
     x \in {n \in {encoded(t[1], t[2], t[3], t[4], t[5], t[6]) :
                     t \in Years \X Months \X Days \X {0, 23} \X {0, 59} \X {0, 59}} :
              isUInt32(n)}}

\* both composers are called with the arguments
composed ==
  /\ codec.op = "header" /\ codec.pc = "given"
  /\ codec' = [codec EXCEPT
       !.pc = "made",
       !.node = createHeader_bytes(codec.command, codec.data, codec.sessionId, codec.replyId),
       !.base = __create_header_bytes(codec.command, codec.data, codec.sessionId,
                                      codec.replyId)]
  /\ UNCHANGED <<session, stream, events, book, scan>>

\* both checksum routines are called with the buffer
checked ==
  /\ codec.op = "checksum" /\ codec.pc = "given"
  /\ codec' = [codec EXCEPT !.pc = "made", !.node = createChecksum(codec.data),
                            !.base = __create_checksum(codec.data)]
  /\ UNCHANGED <<session, stream, events, book, scan>>

\* the number is decoded, and the Date encoded again
recoded ==
  /\ codec.op = "time" /\ codec.pc = "given"
  /\ codec' = [codec EXCEPT !.pc = "made", !.date = decodeTime(codec.x),
                            !.node = encodeTime(decodeTime(codec.x))]
  /\ UNCHANGED <<session, stream, events, book, scan>>

InitCodec ==
  /\ impl = "node"
  /\ tcp = TRUE
  /\ sessionId = DevSession
  /\ replyId = 0
  /\ isConnected = TRUE
  /\ isEnabled = TRUE
  /\ socket = TRUE
  /\ pc = "idle"
  /\ response = NoRes
  /\ res = NoRes
  /\ header = readHeader(NoPkt)
  /\ outcome = "none"
  /\ auxPc = "idle"
  /\ auxOutcome = "none"
  /\ rwb = NoRwb
  /\ wire = NoPkt
  /\ toDev = <<>>
  /\ toCli = <<>>
  /\ devLast = 0
  /\ devStream = <<>>
  /\ nStreams = 0
  /\ sentCmds = <<>>
  /\ run = 0
  /\ connSession = DevSession
  /\ nOps = 0
  /\ nFaults = 0
  /\ nOdd = 0
  /\ frames = <<>>
  /\ arrived = 0
  /\ tcpBuffer = NoBuffer
  /\ request = NoRequest
  /\ returned = NoResult
  /\ nRequests = 0
  /\ capture = NoCapture
  /\ enroll = NoEnroll
  /\ device = [enabled |-> TRUE, events |-> 0]
  /\ issued = <<>>
  /\ nEvents = 0
  /\ nextUid = 1
  /\ nextUserId = "1"
  /\ usersCount = 0
  /\ userPacketSize = 28
  /\ job = NoJob
  /\ nJobs = 0
  /\ codec \in HeaderInputs \cup ChecksumInputs \cup TimeInputs
  /\ scan = NoScan

NextCodec ==
  \/ composed
  \/ checked
  \/ recoded

SpecCodec == InitCodec /\ [][NextCodec]_vars

\* ------------------------------------------------- node: the record parsers
\* getAttendance and getTemplates after their bulk read: the loops that walk
\* the buffer.  Of the attendance buffer only its length matters to the loop;
\* of the template buffer, the bytes, as each record carries its own size.
MaxRows == 12

\* Math.floor(totalSize / this.recordsCount) for a recordsCount other than 0
recordSizeOf(totalSize, recordsCount) ==
  IF recordsCount > 0 THEN totalSize \div recordsCount
  ELSE (-totalSize) \div (-recordsCount)

\* the highest offset a pass of the loop for the width reads, from its start
reach(recordSize) ==
  IF recordSize = 8 THEN 7 ELSE IF recordSize = 16 THEN 9 ELSE 31

\* getAttendance after readSizes, getUsers and the bulk read: the early
\* returns, the record width, the loop is entered
getAttendance_parse ==
  /\ scan.op = "getAttendance" /\ scan.pc = "given"
  /\ scan' = IF scan.recordsCount = 0 \/ scan.size < 4
             THEN [scan EXCEPT !.pc = "done", !.end = "rows"]
             ELSE [scan EXCEPT !.pc = "loop", !.offset = 0,
                     !.recordSize = recordSizeOf(scan.total, scan.recordsCount)]
  /\ UNCHANGED <<session, stream, events, book, codec>>

\* the test of the loop: `offset + recordSize <= data.length`
getAttendance_more == scan.offset + scan.recordSize <= scan.length

\* a pass of the loop: a read outside the buffer throws a RangeError; a row is
\* pushed and the offset moved by the width
getAttendance_row ==
  /\ scan.op = "getAttendance" /\ scan.pc = "loop"
  /\ getAttendance_more
  /\ scan.rows < MaxRows
  /\ scan' = IF scan.offset < 0 \/ scan.offset + reach(scan.recordSize) >= scan.length
             THEN [scan EXCEPT !.pc = "done", !.end = "threw"]
             ELSE [scan EXCEPT !.rows = scan.rows + 1,
                               !.offset = scan.offset + scan.recordSize]
  /\ UNCHANGED <<session, stream, events, book, codec>>

\* the loop is left: `return rows`
getAttendance_return ==
  /\ scan.op = "getAttendance" /\ scan.pc = "loop"
  /\ ~getAttendance_more
  /\ scan' = [scan EXCEPT !.pc = "done", !.end = "rows"]
  /\ UNCHANGED <<session, stream, events, book, codec>>

\* buf.slice(start) for a start of 0 or more
sliceFrom(buf, start) ==
  IF start >= Len(buf) THEN <<>> ELSE SubSeq(buf, start + 1, Len(buf))

\* getTemplates after readSizes and the bulk read: the early returns, the
\* total is read, the loop is entered
getTemplates_parse ==
  /\ scan.op = "getTemplates" /\ scan.pc = "given"
  /\ scan' = IF scan.fingers = 0 \/ scan.size < 4
             THEN [scan EXCEPT !.pc = "done", !.end = "rows"]
             ELSE [scan EXCEPT !.pc = "loop"]
  /\ UNCHANGED <<session, stream, events, book, codec>>

\* the test of the loop: `total > 0 && data.length >= 6`
getTemplates_more == scan.total > 0 /\ Len(scan.data) >= 6

\* what a pass of the loop leaves of the total and of the data
getTemplates_left(total, data) ==
  LET sizeRec == readUInt16LE(data, 0)
  IN <<total - sizeRec, sliceFrom(data, sizeRec)>>

\* a pass of the loop: a template is pushed, the data cut by the size the
\* record gives, the total lowered by it
getTemplates_record ==
  /\ scan.op = "getTemplates" /\ scan.pc = "loop"
  /\ getTemplates_more
  /\ scan.rows < MaxRows
  /\ scan' = [scan EXCEPT !.rows = scan.rows + 1,
                          !.total = getTemplates_left(scan.total, scan.data)[1],
                          !.data = getTemplates_left(scan.total, scan.data)[2]]
  /\ UNCHANGED <<session, stream, events, book, codec>>

\* the loop is left: `return templates`
getTemplates_return ==
  /\ scan.op = "getTemplates" /\ scan.pc = "loop"
  /\ ~getTemplates_more
  /\ scan' = [scan EXCEPT !.pc = "done", !.end = "rows"]
  /\ UNCHANGED <<session, stream, events, book, codec>>

\* ---- the specification of the parsers
\* a template record of `length` bytes whose size field says sizeRec
template(sizeRec, length) ==
  [i \in 1..length |-> CASE i = 1 -> sizeRec % 256
                         [] i = 2 -> sizeRec \div 256
                         [] i \in {3, 6} -> 1
                         [] OTHER -> 0]

SizeRecs == {0, 3, 8, 16, USHRT_MAX}
TemplateData ==
  {<<>>} \cup {template(s, 8) : s \in SizeRecs}
    \cup {template(s[1], 8) \o template(s[2], 8) : s \in SizeRecs \X SizeRecs}
TemplateTotals == {-1, 0, 8, 16, 24}

TotalSizesRead == {0, 2, 8, 16, 32, 40, 80}
RecordsCounts == {-1, 0, 1, 2, 3}
DataLengths == {0, 8, 16, 31, 32, 40, 80}

AttendanceInputs ==
  {[NoScan EXCEPT !.op = "getAttendance", !.pc = "given", !.recordsCount = c,
                  !.total = t, !.length = n, !.size = n + 4] :
     c \in RecordsCounts, t \in TotalSizesRead, n \in DataLengths}
    \cup {[NoScan EXCEPT !.op = "getAttendance", !.pc = "given", !.recordsCount = 1,
                         !.size = 0]}

TemplateInputs ==
  {[NoScan EXCEPT !.op = "getTemplates", !.pc = "given", !.fingers = f, !.total = t,
                  !.data = d, !.size = Len(d) + 4] :
     f \in {0, 1}, t \in TemplateTotals, d \in TemplateData}

InitScan ==
  /\ impl = "node"
  /\ tcp = TRUE
  /\ sessionId = DevSession
  /\ replyId = 0
  /\ isConnected = TRUE
  /\ isEnabled = TRUE
  /\ socket = TRUE
  /\ pc = "idle"
  /\ response = NoRes
  /\ res = NoRes
  /\ header = readHeader(NoPkt)
  /\ outcome = "none"
  /\ auxPc = "idle"
  /\ auxOutcome = "none"
  /\ rwb = NoRwb
  /\ wire = NoPkt
  /\ toDev = <<>>
  /\ toCli = <<>>
  /\ devLast = 0
  /\ devStream = <<>>
  /\ nStreams = 0
  /\ sentCmds = <<>>
  /\ run = 0
  /\ connSession = DevSession
  /\ nOps = 0
  /\ nFaults = 0
  /\ nOdd = 0
  /\ frames = <<>>
  /\ arrived = 0
  /\ tcpBuffer = NoBuffer
  /\ request = NoRequest
  /\ returned = NoResult
  /\ nRequests = 0
  /\ capture = NoCapture
  /\ enroll = NoEnroll
  /\ device = [enabled |-> TRUE, events |-> 0]
  /\ issued = <<>>
  /\ nEvents = 0
  /\ nextUid = 1
  /\ nextUserId = "1"
  /\ usersCount = 0
  /\ userPacketSize = 28
  /\ job = NoJob
  /\ nJobs = 0
  /\ codec = NoCodec
  /\ scan \in AttendanceInputs \cup TemplateInputs

NextScan ==
  \/ getAttendance_parse
  \/ getAttendance_row
  \/ getAttendance_return
  \/ getTemplates_parse
  \/ getTemplates_record
  \/ getTemplates_return

SpecScan == InitScan /\ [][NextScan]_vars

\* ------------------------------------------------------------- properties
\* C1: for a device that echoes the reply id it receives, after any number
\* N >= 1 of successful commands since the counters were reset the stored
\* reply id equals the reply id of the device's last reply; it is the N-th
\* value after 65534 in the cycle of length 65535, so the first one is the
\* wrap from 65534 to 0.
C1_replyIdFollowsDevice ==
  (run >= 1 /\ pc \notin WaitLabels) =>
     /\ replyId = devLast
     /\ replyId = (USHRT_MAX - 1 + run) % USHRT_MAX

\* two successful commands in a row, the first of them across the wrap
C1_witness ==
  /\ run = 2 /\ pc = "idle" /\ outcome = "ok"
  /\ replyId = 1 /\ devLast = 1

\* C2: every command packet written carries the reply id (r + 1) mod 65535,
\* r being the reply id stored when the packet is composed; the value on the
\* wire is in 0..65534, and 65534 is followed by 0.
C2_outboundReplyId ==
  [][ (Len(toDev') > Len(toDev) \/ (pc = "connect.socket" /\ pc' = "connect.CONNECT"))
        => /\ toDev'[Len(toDev')].reply = (replyId' + 1) % USHRT_MAX
           /\ toDev'[Len(toDev')].reply \in 0..(USHRT_MAX - 1)
           /\ (replyId' = USHRT_MAX - 1 => toDev'[Len(toDev')].reply = 0) ]_vars

\* CMD_CONNECT has gone out with reply id 0 while 65534 is stored
C2_witness ==
  /\ pc = "connect.CONNECT" /\ replyId = USHRT_MAX - 1
  /\ toDev # <<>> /\ toDev[Len(toDev)].command = CMD_CONNECT
  /\ toDev[Len(toDev)].reply = 0

\* C3: after every reply read by the request/reply primitive, ok or not, the
\* stored session id and reply id equal the session and reply fields of that
\* reply's header.
C3_idsFromReply ==
  header.command # 0 =>
     /\ sessionId = header.session
     /\ replyId = header.reply

\* C4: once connect has completed, every packet written carries the session
\* adopted from the reply to CMD_CONNECT, and a reply whose session field
\* differs from it is not reported as a valid reply.
C4_sessionKept ==
  /\ (isConnected /\ pc \in WaitLabels \ {"connect.CONNECT", "connect.AUTH"})
        => wire.session = connSession
  /\ (/\ isConnected /\ header.command # 0 /\ sentCmds # <<>>
      /\ sentCmds[Len(sentCmds)] \notin {CMD_CONNECT, CMD_AUTH}
      /\ header.session # connSession)
        => ~res.status

\* C5: when the reply to CMD_CONNECT is CMD_ACK_UNAUTH, connect sends CMD_AUTH
\* with the key made from the password and the session of that reply, and
\* connect ends with the connected flag set exactly when the reply to
\* CMD_AUTH is CMD_ACK_OK.
C5_authDecides ==
  /\ pc = "connect.AUTH" =>
        /\ wire.command = CMD_AUTH
        /\ wire.arg = makeCommKey(password, connSession)
        /\ wire.session = connSession
  /\ (/\ pc = "idle" /\ sentCmds = <<CMD_CONNECT, CMD_AUTH>>
      /\ outcome \notin Faults)
        => (isConnected <=> header.command = CMD_ACK_OK)

\* C6: when the terminal response of connect (the reply to CMD_CONNECT, or to
\* CMD_AUTH when authentication was attempted) is not ok, connect fails:
\* with an authentication error when that response is CMD_ACK_UNAUTH, with a
\* protocol error otherwise; the connected flag stays false.
C6_connectFailure ==
  (/\ pc = "idle" /\ sentCmds # <<>>
   /\ sentCmds[Len(sentCmds)] \in {CMD_CONNECT, CMD_AUTH}
   /\ outcome \notin Faults
   /\ header.command \notin {CMD_ACK_OK, CMD_PREPARE_DATA, CMD_DATA})
     => /\ outcome = IF header.command = CMD_ACK_UNAUTH
                     THEN "Unauthenticated" ELSE "InvalidResponse"
        /\ ~isConnected

\* C7: disconnect on an open session ends with the transport closed and the
\* connected flag false whatever happens to CMD_EXIT: ok reply, non-ok reply,
\* transport error or timeout.
C7_disconnectCloses ==
  (pc = "idle" /\ sentCmds # <<>> /\ sentCmds[Len(sentCmds)] = CMD_EXIT)
     => (~socket /\ ~isConnected)

\* C8: the request/reply primitive reports a reply as ok exactly when its
\* command code is CMD_ACK_OK, CMD_PREPARE_DATA or CMD_DATA; any other code
\* is reported as a failure, and the code itself is handed on unchanged.
C8_okCodes ==
  header.command # 0 =>
     /\ res.status <=> header.command \in {CMD_ACK_OK, CMD_PREPARE_DATA, CMD_DATA}
     /\ res.code = header.command

\* a reply with CMD_DATA has been reported ok
C8_witness ==
  header.command = CMD_DATA /\ res.status /\ res.code = CMD_DATA

\* C9: at every moment at most one receive waiter is active on the transport
\* of a session, whatever order the host invokes operations in.
C9_oneWaiter ==
  ~(pc \in WaitLabels /\ auxPc = "wait")

\* C10: when a chunk read fails after the prepare-buffer request of a bulk
\* read succeeded, the bulk read sends CMD_FREE_DATA before it reports the
\* failure.
C10_freeAfterFailure ==
  (/\ pc = "idle" /\ outcome # "ok"
   /\ \E k \in 1..Len(sentCmds) : sentCmds[k] = _CMD_READ_BUFFER)
     => \E k \in 1..Len(sentCmds) : sentCmds[k] = CMD_FREE_DATA

\* C11: when the reply to the prepare-buffer request of a bulk read is
\* CMD_DATA, the payload being returned inline, the bulk read sends
\* CMD_FREE_DATA before it returns the payload: a bulk read that has returned
\* successfully without asking for any chunk has sent CMD_FREE_DATA.
C11_freeAfterInline ==
  (/\ pc = "idle" /\ outcome = "ok"
   /\ sentCmds # <<>> /\ sentCmds[1] = _CMD_PREPARE_BUFFER
   /\ \A k \in 1..Len(sentCmds) : sentCmds[k] # _CMD_READ_BUFFER)
     => \E k \in 1..Len(sentCmds) : sentCmds[k] = CMD_FREE_DATA

\* C12 (as stated): a chunked bulk read of announced length N sends exactly
\* ceil(N / chunkmax) chunk requests before CMD_FREE_DATA.
C12_chunkRequests ==
  pc = "rwb.FREE" =>
     Cardinality({k \in 1..Len(sentCmds) : sentCmds[k] = _CMD_READ_BUFFER})
       = (rwb.size + MAX_CHUNK - 1) \div MAX_CHUNK

\* C12 (amended): a chunked bulk read of announced length N asks for
\* ceil(N / chunkmax) chunks, chunkmax being 0xFFC0 on the stream carrier and
\* 16384 on the datagram carrier: the chunk asked for is always the one at
\* offset k * chunkmax for the number k of chunks already read, its size is
\* min(chunkmax, N - offset) >= 1, and CMD_FREE_DATA goes out when the sizes
\* read add up to N.  node-zk sends exactly one request per chunk; the base
\* port may send the request for a chunk up to three times.
C12_chunkPlan ==
  /\ pc \in {"rwb.CHUNK", "rwb.CHUNK.data"} =>
        /\ wire.command = _CMD_READ_BUFFER
        /\ wire.arg[1] = rwb.start
        /\ rwb.start < rwb.size
        /\ \E k \in 0..((rwb.size + MAX_CHUNK - 1) \div MAX_CHUNK - 1) :
              wire.arg[1] = k * MAX_CHUNK
        /\ wire.arg[2] = IF rwb.size - rwb.start < MAX_CHUNK
                         THEN rwb.size - rwb.start ELSE MAX_CHUNK
        /\ wire.arg[2] >= 1
        /\ rwb.tries < 3
  /\ pc = "rwb.FREE" =>
        LET asked == Cardinality({k \in 1..Len(sentCmds) :
                                    sentCmds[k] = _CMD_READ_BUFFER})
            chunks == (rwb.size + MAX_CHUNK - 1) \div MAX_CHUNK IN
        /\ rwb.start = rwb.size
        /\ asked >= chunks /\ asked <= 3 * chunks
        /\ impl = "node" => asked = chunks

\* N = 0x12345 on the stream carrier: the chunk of 0xFFC0 bytes is in and
\* the chunk of 0x2385 bytes at offset 0xFFC0 is asked for
C12_witness ==
  /\ tcp /\ pc = "rwb.CHUNK" /\ rwb.size = 74565
  /\ wire.arg = <<65472, 9093>>

\* C13: on the stream carrier no complete frame is lost or merged: a frame
\* that reaches the socket while no receive is pending, or in the same read
\* event as the end of the previous frame, is kept and delivered whole to the
\* next receive.  A byte of a frame leaves the bytes held for the receives only
\* when a receive returns that frame, and nothing but that frame (or when the
\* receive is rejected).
C13_framesKept ==
  [][ \A k \in 1..Len(frames) :
        (/\ tcpBuffer'.from > tcpBuffer.from
         /\ tcpBuffer.from < frameStart(k + 1)
         /\ tcpBuffer'.from > frameStart(k))
        => \/ /\ request.pc # "idle" /\ request'.pc = "idle"
              /\ returned'.status = "ok" /\ returned'.frame = k
              /\ \/ returned'.kind = "cmd" /\ returned'.skip = TcpTop
                                           /\ returned'.size = frames[k]
                 \/ returned'.kind = "raw" /\ returned'.skip = 0
                                           /\ returned'.size = TcpTop + frames[k]
           \/ /\ request.pc # "idle" /\ request'.pc = "idle"
              /\ returned'.status \in Faults \cup {"invalid"} ]_vars

\* C14: on the stream carrier, however the bytes of a reply frame are cut
\* into read events, the request returns the same result: the `length`
\* payload bytes the envelope of the frame declares, in the order of arrival.
C14_payloadReturned ==
  (returned.kind = "cmd" /\ returned.status = "ok" /\ returned.frame # 0)
    => /\ returned.skip = TcpTop
       /\ returned.size = frames[returned.frame]

\* C15: on the stream carrier a request completes as soon as the 8-byte
\* envelope and the `length` payload bytes it declares have arrived: it is
\* never left waiting with those bytes received (whatever response size the
\* caller supplied), and completing it takes exactly those bytes.
C15_completesAtLength ==
  [][ /\ (request'.pc = "wait" /\ frameAt(tcpBuffer'.from) # 0)
          => tcpBuffer'.total < TcpTop + frames'[frameAt(tcpBuffer'.from)]
      /\ (/\ request.pc # "idle" /\ request'.pc = "idle"
          /\ returned'.status = "ok" /\ returned'.frame # 0)
          => tcpBuffer'.from = frameStart(returned'.frame + 1) ]_vars

\* C16: after a request has failed with a receive timeout the client no
\* longer counts as connected, so that further commands are refused until
\* connect establishes a new session.
C16_timeoutDisconnects ==
  (pc = "idle" /\ outcome = "Timeout") => ~isConnected

\* C17: the reply the request/reply primitive returns is the device's reply
\* to the request it has just written: a late reply to an earlier request
\* that timed out is never returned as the reply to a later request.
C17_replyToRequest ==
  [][ (/\ pc \in WaitLabels \ {"rwb.CHUNK.data"}
       /\ received
       /\ toCli' = afterRead
       /\ header' = readHeader(Head(toCli)))
      => Head(toCli).no = wire.no ]_vars

\* C18: once the stop signal of live capture is set (`running` is false),
\* live capture starts no new raw receive, and it ends: after the raw receive
\* in flight at that moment has returned or timed out, provided every awaited
\* primitive resolves or rejects and the consumer keeps pulling.
C18_stopEnds ==
  /\ [][ (~capture.running /\ capture.pc # "recv") => capture'.pc # "recv" ]_vars
  /\ (~capture.running ~> capture.pc = "done")

\* the stop signal was set while a raw receive was in flight, and the capture
\* has run to its end
C18_witness ==
  capture.pc = "done" /\ capture.stoppedAt = "recv" /\ capture.end = "return"

\* C19: whenever live capture ends after its loop was entered, by whatever
\* path, CMD_REG_EVENT with flag 0 has been issued and the device-enabled state
\* and the client's enabled flag equal their values before live capture started.
C19_restoredOnExit ==
  (capture.pc = "done" /\ capture.looped) =>
    /\ \E k \in 1..Len(issued) : issued[k] = <<CMD_REG_EVENT, <<0>>>>
    /\ device.enabled = capture.devWas
    /\ isEnabled = capture.wasEnabled

\* some round's code is 0x00 and every earlier round's code was 0x64
successDue(codes) ==
  \E k \in 1..Len(codes) : codes[k] = 0 /\ \A j \in 1..(k - 1) : codes[j] = 100

\* the raw receives and ACK-OKs of the rounds alternate, four to a round
roundsAsTold ==
  /\ Len(enroll.codes) <= 3
  /\ \A k \in 1..Len(enroll.steps) :
       enroll.steps[k] = IF k % 2 = 1 THEN "recv" ELSE "ack"
  /\ Len(enroll.codes) = Len(enroll.steps) \div 4
  /\ \A j \in 1..(Len(enroll.codes) - 1) : enroll.codes[j] = 100
  /\ enroll.pc \in {"ev1", "ack1", "ev2", "ack2"} =>
       /\ Len(enroll.codes) < 3
       /\ \A j \in 1..Len(enroll.codes) : enroll.codes[j] = 100

commands == [i \in DOMAIN issued |-> issued[i][1]]

sent(c) == \E i \in DOMAIN issued : issued[i][1] = c

\* ceil(L / 1024)
chunksOf(L) == (L + 1023) \div 1024

\* C21: a template bulk write issues, in this order, CMD_FREE_DATA,
\* CMD_PREPARE_DATA, the CMD_DATA chunks (ceil(L/1024) chunks of at most 1024
\* bytes whose concatenation is the L-byte buffer), _CMD_SAVE_USERTEMPS,
\* CMD_REFRESHDATA; each step is sent only after the step before it got an ok
\* reply, so after a reply that is not ok nothing more is sent.
C21_bulkWriteOrder ==
  job.name = "HRSaveUserTemplates" =>
    LET L == job.length
        n == chunksOf(L)
    IN /\ Len(issued) <= n + 4
       /\ \A i \in DOMAIN issued :
            /\ i = 1 => issued[i] = <<CMD_FREE_DATA, <<>>>>
            /\ i = 2 => issued[i] = <<CMD_PREPARE_DATA, <<L>>>>
            /\ (i > 2 /\ i <= n + 2) =>
                 /\ issued[i][1] = CMD_DATA
                 /\ issued[i][2][1] = 1024 * (i - 3)
                 /\ issued[i][2][2] \in 1..1024
                 /\ i = n + 2 => issued[i][2][1] + issued[i][2][2] = L
                 /\ i < n + 2 => issued[i][2][2] = 1024
            /\ i = n + 3 => issued[i][1] = _CMD_SAVE_USERTEMPS
            /\ i = n + 4 => issued[i][1] = CMD_REFRESHDATA
            /\ i < Len(issued) => job.acks[i]
       /\ job.pc = "done" => (job.result = "undefined") = (Len(issued) = n + 4 /\ job.acks[n + 4])
       /\ (job.pc # "done" /\ issued # <<>>) => job.acks[Len(issued)]

C21_witness ==
  /\ job.name = "HRSaveUserTemplates" /\ job.result = "undefined"
  /\ job.length = 1025 /\ Len(issued) = 6
  /\ issued[4] = <<CMD_DATA, <<1024, 1>>>>

\* C22: a stream reply whose envelope magic words are not 0x5050 and 0x8217
\* makes the request fail with an error, and leaves the client's session id
\* and reply id unchanged: while such bytes are what the request finds, it
\* ends only by throwing, with no header taken from them.
C22_invalidEnvelope ==
  [][ (/\ tcp /\ pc \in WaitLabels
       /\ toCli # <<>> /\ Head(toCli).command = 0
       /\ pc' # pc)
      => /\ sessionId' = sessionId /\ replyId' = replyId
         /\ header' = header /\ res' = res
         /\ pc = "disconnect.EXIT" \/ outcome' \in Faults \cup {"FrameError"} ]_vars

\* an operation of a connected session has failed on such a reply
C22_witness ==
  tcp /\ isConnected /\ pc = "idle" /\ outcome = "FrameError" /\ replyId # 65533

\* C23: in the live-capture loop every received frame whose command is not
\* CMD_REG_EVENT, and every receive timeout, makes the stream yield a null
\* tick to the consumer.
C23_nullTick ==
  [][ (\/ capture.pc = "ackOk" /\ capture.command # CMD_REG_EVENT /\ capture'.pc # "ackOk"
       \/ capture.pc = "recv" /\ capture'.pc \notin {"recv", "ackOk"})
      => capture'.pc = "yield.null" ]_vars

\* C24: the ACK-OK packet emitted after each frame received by live
\* capture or enrollment carries the current session id and the reply id 65534.
C24_ackReplyId ==
  [][ (capture.pc = "ackOk" \/ enroll.pc \in {"ack1", "ack2"}) /\ wire' # wire
      => /\ wire'.command = CMD_ACK_OK
         /\ wire'.session = sessionId
         /\ wire'.reply = 65534 ]_vars

\* C25: on every way the enrollment rounds end (success, failure code, three
\* re-scans, a raw receive that times out), enrollUser has sent CMD_REG_EVENT
\* with flag 0, then CMD_CANCELCAPTURE, then CMD_STARTVERIFY when it finishes.
C25_enrollCleanup ==
  (enroll.pc = "done" /\ enroll.began) =>
    /\ Len(issued) >= 3
    /\ SubSeq(issued, Len(issued) - 2, Len(issued)) =
         << <<CMD_REG_EVENT, <<0>>>>, <<CMD_CANCELCAPTURE, <<>>>>,
            <<CMD_STARTVERIFY, <<>>>> >>

\* C26: in a chunked bulk read every chunk accepted into the result is the
\* payload of a CMD_DATA reply whose length is the chunk size asked for.
C26_chunkIsData ==
  [][ (/\ pc = "rwb.CHUNK" /\ received /\ toCli' = afterRead
       /\ rwb' # NoRwb /\ rwb'.start > rwb.start)
      => /\ Head(toCli).command = CMD_DATA
         /\ Head(toCli).arg = <<wire.arg[2]>> ]_vars

\* C27: the payload of _CMD_SAVE_USERTEMPS in a template bulk write is
\* [total_len:u32, 0:u16, 8:u16], total_len being the length of the buffer
\* just transmitted, the value sent in CMD_PREPARE_DATA.
C27_saveLength ==
  job.name = "HRSaveUserTemplates" =>
    \A i \in DOMAIN issued :
      issued[i][1] = _CMD_SAVE_USERTEMPS =>
        /\ issued[i][2] = <<job.length, 0, 8>>
        /\ issued[2] = <<CMD_PREPARE_DATA, <<issued[i][2][1]>>>>

\* C27, amended: the payload of _CMD_SAVE_USERTEMPS is [12:u32, 0:u16, 8:u16]
\* whatever the length of the buffer just transmitted; that length is the
\* value sent in CMD_PREPARE_DATA.
C27_saveTwelve ==
  job.name = "HRSaveUserTemplates" =>
    \A i \in DOMAIN issued :
      issued[i][1] = _CMD_SAVE_USERTEMPS =>
        /\ issued[i][2] = <<12, 0, 8>>
        /\ issued[2] = <<CMD_PREPARE_DATA, <<job.length>>>>

C27_witness ==
  /\ job.name = "HRSaveUserTemplates" /\ job.length = 2048
  /\ Len(issued) = 5 /\ issued[5] = <<_CMD_SAVE_USERTEMPS, <<12, 0, 8>>>>

C29_setUser ==
  [][ job.name = "setUser" =>
        /\ (job.pc = "wrq" /\ job'.pc # "wrq") =>
             /\ nextUid' = nextUid /\ nextUserId' = nextUserId
             /\ IF job'.acks[Len(job'.acks)]
                THEN job'.pc = "refresh"
                ELSE job'.result = "threw" /\ ~ sent(CMD_REFRESHDATA)'
        /\ (job.pc = "refresh" /\ job'.pc # "refresh") =>
             /\ issued'[Len(issued')][1] = CMD_REFRESHDATA
             /\ nextUid' = IF job.uid = nextUid THEN nextUid + 1 ELSE nextUid ]_vars

\* C29, amended: setUser enumerates the users first, which sets nextUid and
\* nextUserId.  When the reply to CMD_USER_WRQ is not ok, setUser fails, sends
\* no CMD_REFRESHDATA and leaves nextUid and nextUserId as the enumeration set
\* them; when it is ok, CMD_REFRESHDATA follows; when that is acknowledged too,
\* nextUid advances by exactly one (nextUserId being its decimal string) if the
\* written UID equalled nextUid and both stay otherwise; when it is not,
\* setUser fails and both stay.
C29_setUserRefreshed ==
  [][ job.name = "setUser" =>
        /\ (job.pc = "wrq" /\ job'.pc # "wrq") =>
             /\ nextUid' = nextUid /\ nextUserId' = nextUserId
             /\ IF job'.acks[Len(job'.acks)]
                THEN job'.pc = "refresh"
                ELSE job'.result = "threw" /\ ~ sent(CMD_REFRESHDATA)'
        /\ (job.pc = "refresh" /\ job'.pc # "refresh") =>
             /\ issued'[Len(issued')][1] = CMD_REFRESHDATA
             /\ job'.result = IF job'.acks[Len(job'.acks)] THEN "true" ELSE "threw"
             /\ <<nextUid', nextUserId'>> =
                  IF job'.result = "true" /\ job.uid = nextUid
                  THEN <<nextUid + 1, String(nextUid + 1)>>
                  ELSE <<nextUid, nextUserId>> ]_vars

C29_witness ==
  /\ job.name = "setUser" /\ job.result = "true"
  /\ job.users # <<>> /\ job.uid = 3 /\ nextUid = 4 /\ nextUserId = "4"

\* a deleteUser by user id string alone (the only one that enumerates) whose
\* enumeration came back and matched no user
unmatched ==
  /\ job.name = "deleteUser" /\ job.pc = "done"
  /\ issued # <<>> /\ issued[1][1] = CMD_GET_FREE_SIZES
  /\ \A i \in DOMAIN job.acks : i <= 2 => job.acks[i]
  /\ find(job.users, job.userId) = 0

\* C30: deleting a user by a user id string that matches no enumerated user
\* is reported as an operation error (delete-user-not-found), and no
\* CMD_DELETE_USER and no CMD_REFRESHDATA is sent.
C30_deleteNotFound ==
  unmatched => /\ job.result = "threw"
               /\ ~ sent(CMD_DELETE_USER) /\ ~ sent(CMD_REFRESHDATA)

\* C30, amended: deleting a user by a user id string that matches no
\* enumerated user returns false and raises no error, and no CMD_DELETE_USER
\* and no CMD_REFRESHDATA is sent.
C30_deleteReturnsFalse ==
  unmatched => /\ job.result = "false"
               /\ ~ sent(CMD_DELETE_USER) /\ ~ sent(CMD_REFRESHDATA)

C30_witness ==
  /\ unmatched /\ job.users # <<>> /\ job.result = "false"
  /\ commands = <<CMD_GET_FREE_SIZES, _CMD_PREPARE_BUFFER>>

\* C31: after any sequence of operations and for any device replies, the
\* cached user-record layout width is 28 or 72.
C31_widthKnown == userPacketSize \in {28, 72}

\* C37: in the node-zk client, after any sequence of completed operations
\* (construction, getUsers, setUser, deleteUser, clearData), nextUserId is the
\* decimal string of nextUid.
C37_idIsDecimal ==
  (impl = "node" /\ job.pc \in {"idle", "done"}) => nextUserId = String(nextUid)

\* C35: while the client is not connected, every command other than
\* CMD_CONNECT and CMD_AUTH fails with a not-connected error without writing
\* any packet to the transport and without changing the session id, the reply
\* id or any cached field.  (node-zk's disconnect catches the error of its
\* CMD_EXIT and goes on to close the socket; without a socket it sends nothing.)
C35_notConnected ==
  [][ (~isConnected /\ pc = "idle" /\ nOps' = nOps + 1 /\ pc' # "connect.socket")
      => /\ wire' = wire /\ toDev' = toDev /\ sentCmds' = <<>>
         /\ sessionId' = sessionId /\ replyId' = replyId
         /\ isEnabled' = isEnabled /\ isConnected' = isConnected
         /\ connSession' = connSession /\ socket' = socket
         /\ \/ outcome' = "NotConnected"
            \/ impl = "node" /\ socket /\ pc' = "disconnect.close"
            \/ impl = "node" /\ ~socket /\ outcome' = "ok" ]_vars

C35_witness ==
  /\ ~isConnected /\ pc = "idle" /\ outcome = "NotConnected" /\ nOps = 2
  /\ wire.command \in {CMD_CONNECT, CMD_AUTH} /\ socket

\* a step of a raw receive or of the ACK-OK that follows it
rawStep ==
  \/ capture.pc \in {"recv", "ackOk"} /\ capture' # capture
  \/ enroll.pc \in {"ev1", "ack1", "ev2", "ack2"} /\ enroll' # enroll

\* C36: a raw receive and the ACK-OK that follows it (in live capture and
\* enrollment) leave the stored session id and reply id unchanged; the last
\* command before the flow left the reply id it carried as the stored one, and
\* the first command after an ACK-OK carries the reply id that follows it.
C36_rawKeepsIds ==
  [][ /\ rawStep => (sessionId' = sessionId /\ replyId' = replyId)
      /\ (Len(issued') = Len(issued) + 1 /\ (capture'.pc = "recv" \/ enroll'.pc = "ev1"))
           => replyId' = wire'.reply
      /\ (Len(issued') = Len(issued) + 1 /\ wire.command = CMD_ACK_OK)
           => (wire'.reply = nextReplyId(replyId) /\ wire'.session = sessionId) ]_vars

C36_witness ==
  /\ nEvents >= 1 /\ capture.pc \in {"disableDevice", "done"}
  /\ Len(issued) > 0 /\ issued[Len(issued)] = <<CMD_REG_EVENT, <<0>>>>
  /\ wire.command = CMD_REG_EVENT /\ wire.reply = replyId /\ replyId > 0

\* the packets the two composers made from the arguments
bothPackets == {codec.node, codec.base}

connectBytes == <<232, 3, 0, 0, 0, 0, 254, 255>>

\* C33 as stated: the checksum of the 8 bytes [E8 03 00 00 00 00 FE FF] is
\* 0x17F5.
C33_checksum ==
  (codec.op = "checksum" /\ codec.pc = "made" /\ codec.data = connectBytes)
    => codec.node = 6133

\* C33: the checksum of the 8 bytes [E8 03 00 00 00 00 FE FF] is 0xFC18 by
\* createChecksum, and __create_checksum returns 0xFC17 for them.
C33_checksumFC18 ==
  (codec.op = "checksum" /\ codec.pc = "made" /\ codec.data = connectBytes)
    => (codec.node = 64536 /\ codec.base = 64535)

C33_witness ==
  codec.op = "checksum" /\ codec.pc = "made" /\ codec.data = connectBytes

\* C34: encodeTime(decodeTime(x)) = x for every x that encodes a legal tuple
\* under the 31-day-month scheme, day 31 of shorter months included.
C34_timeRoundTrip ==
  (codec.op = "time" /\ codec.pc = "made") => codec.node = codec.x

\* the arguments that make a packet of zeros before the checksum
allZero ==
  /\ codec.command = 0 /\ codec.sessionId = 0 /\ codec.replyId = USHRT_MAX - 1
  /\ \A i \in 1..Len(codec.data) : codec.data[i] = 0

C38_attendanceEnds ==
  [][ (scan.op = "getAttendance" /\ scan.pc = "loop" /\ scan'.pc = "loop")
      => scan'.offset # scan.offset ]_vars

\* C39: getTemplates terminates for every bulk-read result, a record whose
\* size field is 0 or below the 6 bytes of the record header included: no pass
\* of its loop leaves the total and the data as they were.  (They are all the
\* test of the loop depends on, so such a pass is repeated without end.)
C39_templatesEnd ==
  [][ (scan.op = "getTemplates" /\ scan.pc = "loop" /\ scan'.pc = "loop")
      => <<scan'.total, scan'.data>> # <<scan.total, scan.data>> ]_vars

====
